---- MODULE Spec2Model ----
(***************************************************************************)
(* Memecoin tweet tracker: the post analyzer (tweet_analyzer.py) and the   *)
(* trend aggregation of the data processor (data_processor.py).            *)
(*                                                                         *)
(* Strings are sequences of characters, a character being a one-element    *)
(* TLA+ string ("d", "$", " ") or the code point name of an emoji          *)
(* ("U+1F680").  Real numbers are fixed-point integers: sentiment scores   *)
(* count ten-thousandths (0.05 is 500, 1.0 is 10000), importance scores    *)
(* are computed in ten-thousandths and returned in hundredths.             *)
(***************************************************************************)
EXTENDS Integers, Sequences, FiniteSets, TLC

VARIABLES
    sentiment_analyzer,  \* TweetAnalyzer.sentiment_analyzer: "ok", "none" (initialisation failed), "broken" (polarity_scores raises)
    crypto_lexicon,      \* TweetAnalyzer.crypto_lexicon, in dict insertion order
    input,               \* the arguments of the analyzer call under study
    output,              \* the call under study with what it returned, for a cycle the store call that raised; [op |-> "none"] before the call
    tweets_db,           \* the posts the store holds (db.get_tweets reads them)
    coin_trends,         \* the trend rows the store holds, in write order
    statistics,          \* the statistics snapshots the store holds, in write order
    now,                 \* the clock, in hours
    cycle,               \* the last processing cycle: its number, its batch, the trend rows it wrote
    trends,              \* what the last get_trends call returned, with its window
    driver,              \* main(): where its control is, the cycles it has run, what ended it
    notification_service \* NotificationService: email_config, alert_thresholds, notification_history

vars == << sentiment_analyzer, crypto_lexicon, input, output,
           tweets_db, coin_trends, statistics, now, cycle, trends,
           driver, notification_service >>

analyzer_vars == << sentiment_analyzer, crypto_lexicon, input, output >>
store_vars == << tweets_db, coin_trends, statistics, now, cycle, trends >>
service_vars == << driver, notification_service >>

\* main() is not running, no notification service is under study
NoDriver == [ pc |-> "none" ]
NoService == [ constructed |-> FALSE ]
ServiceInit == driver = NoDriver /\ notification_service = NoService

(***************************************************************************)
(* Bounds of the model.                                                    *)
(***************************************************************************)
MaxPieces == 3      \* a text is at most this many vocabulary pieces long
MaxTweets == 2      \* the store holds at most this many posts
MaxCycles == 2      \* process_recent_data runs at most this many times
MaxTicks == 1       \* the clock stops after this many steps of 12 hours

(***************************************************************************)
(* Strings.                                                                *)
(***************************************************************************)
UpperCase == << "A","B","C","D","E","F","G","H","I","J","K","L","M",
                "N","O","P","Q","R","S","T","U","V","W","X","Y","Z" >>
LowerCase == << "a","b","c","d","e","f","g","h","i","j","k","l","m",
                "n","o","p","q","r","s","t","u","v","w","x","y","z" >>
Digits == { "0","1","2","3","4","5","6","7","8","9" }

Range(s) == { s[i] : i \in DOMAIN s }

\* str.lower() on one character
LowerOf == [ ch \in Range(UpperCase) |->
                LowerCase[CHOOSE i \in DOMAIN UpperCase : UpperCase[i] = ch] ]
LowerChar(ch) == IF ch \in DOMAIN LowerOf THEN LowerOf[ch] ELSE ch

\* str.lower()
Lower(s) == [ i \in DOMAIN s |-> LowerChar(s[i]) ]

\* the character class [a-zA-Z0-9]
IsAlnum(ch) == ch \in Range(UpperCase) \cup Range(LowerCase) \cup Digits

\* Python's `sub in s` on strings
Contains(s, sub) ==
    \E i \in 0 .. (Len(s) - Len(sub)) : SubSeq(s, i + 1, i + Len(sub)) = sub

RECURSIVE Flatten(_)
Flatten(pieces) ==
    IF pieces = << >> THEN << >> ELSE Head(pieces) \o Flatten(Tail(pieces))

\* every text made of at most n pieces of a vocabulary
TextsOver(words, n) ==
    { Flatten(p) : p \in UNION { [1..k -> words] : k \in 0..n } }

doge == <<"d","o","g","e">>
DOGE == <<"D","O","G","E">>
shib == <<"s","h","i","b">>

(***************************************************************************)
(* Exceptions: a call either returns a value or raises.                    *)
(***************************************************************************)
Returned(v) == [raised |-> FALSE, value |-> v]
Raised == [raised |-> TRUE]

(***************************************************************************)
(* TweetAnalyzer._load_crypto_lexicon (tweet_analyzer.py 46-70).           *)
(***************************************************************************)
_load_crypto_lexicon ==
    << [term |-> <<"m","o","o","n">>, score |-> 8000],
       [term |-> <<"m","o","o","n","i","n","g">>, score |-> 8000],
       [term |-> <<"b","u","l","l","i","s","h">>, score |-> 6000],
       [term |-> <<"b","e","a","r","i","s","h">>, score |-> -6000],
       [term |-> <<"d","u","m","p">>, score |-> -7000],
       [term |-> <<"p","u","m","p","i","n","g">>, score |-> 7000],
       [term |-> <<"s","c","a","m">>, score |-> -9000],
       [term |-> <<"r","u","g","p","u","l","l">>, score |-> -9000],
       [term |-> <<"g","e","m">>, score |-> 7000],
       [term |-> <<"h","o","d","l">>, score |-> 5000],
       [term |-> <<"l","a","m","b","o">>, score |-> 6000],
       [term |-> <<"f","o","m","o">>, score |-> 3000],
       [term |-> <<"t","o"," ","t","h","e"," ","m","o","o","n">>, score |-> 8000],
       [term |-> <<"g","o","i","n","g"," ","t","o"," ","z","e","r","o">>, score |-> -8000],
       [term |-> <<"w","o","r","t","h","l","e","s","s">>, score |-> -9000],
       [term |-> <<"r","o","c","k","e","t">>, score |-> 7000],
       [term |-> <<"U+1F680">>, score |-> 7000],
       [term |-> <<"U+1F48E">>, score |-> 6000],
       [term |-> <<"U+1F319">>, score |-> 7000],
       [term |-> <<"U+1F4AA">>, score |-> 5000],
       [term |-> <<"U+1F4C9">>, score |-> -7000],
       [term |-> <<"U+1F4C8">>, score |-> 7000],
       [term |-> <<"U+1F525">>, score |-> 6000] >>

(***************************************************************************)
(* TweetAnalyzer._analyze_sentiment (tweet_analyzer.py 138-167).           *)
(***************************************************************************)
Min(a, b) == IF a <= b THEN a ELSE b
Max(a, b) == IF a >= b THEN a ELSE b

\* line 159 with the bounds dropped
NoClamp(x) == x

\* line 159: max(-1.0, min(1.0, compound))
Clamp(x) == Max(-10000, Min(10000, x))

\* lines 155-159 from entry i on: sentiment_scores['compound'] after each
\* lexicon entry is visited, the entries taken in dict order
RECURSIVE AdjustFrom(_, _, _, _)
AdjustFrom(text_lower, lexicon, i, steps) ==
    IF i > Len(lexicon) THEN steps
    ELSE LET compound == steps[Len(steps)]
             next == IF Contains(text_lower, lexicon[i].term)
                     THEN Clamp(compound + lexicon[i].score)
                     ELSE compound
         IN  AdjustFrom(text_lower, lexicon, i + 1, Append(steps, next))

\* lines 152-159: the base polarity of line 152, then the compound score
\* after each lexicon entry
CompoundSteps(text, lexicon, polarity) ==
    AdjustFrom(Lower(text), lexicon, 1, << polarity >>)

\* lines 162-167 with the boundaries excluded
ClassifyStrict(compound) ==
    IF compound > 500 THEN "positive"
    ELSE IF compound < -500 THEN "negative"
    ELSE "neutral"

\* lines 162-167
Classify(compound) ==
    IF compound >= 500 THEN "positive"
    ELSE IF compound <= -500 THEN "negative"
    ELSE "neutral"

\* the compound score that lines 162-167 classify
Compound(text, lexicon, polarity) ==
    LET steps == CompoundSteps(text, lexicon, polarity)
    IN  steps[Len(steps)]

\* the method without the guard of lines 148-149: None has no polarity_scores
AnalyzeSentimentUnguarded(analyzer, lexicon, text, polarity) ==
    IF analyzer # "ok" THEN Raised
    ELSE Returned(Classify(Compound(text, lexicon, polarity)))

\* the whole method; polarity is what polarity_scores(text)['compound'] gives
_analyze_sentiment(analyzer, lexicon, text, polarity) ==
    IF analyzer = "none" THEN Returned("neutral")
    ELSE IF analyzer = "broken" THEN Raised
    ELSE Returned(Classify(Compound(text, lexicon, polarity)))

(***************************************************************************)
(* Python values whose type the code depends on: a dict is a function from *)
(* its keys, a missing key is a key outside its domain.                    *)
(***************************************************************************)
PyStr(s) == [type |-> "str", val |-> s]
PyInt(n) == [type |-> "int", val |-> n]
PyList(l) == [type |-> "list", val |-> l]
PyNone == [type |-> "NoneType", val |-> 0]

\* dict.get(key, default)
Get(dict, key, default) == IF key \in DOMAIN dict THEN dict[key] ELSE default

(***************************************************************************)
(* TweetAnalyzer._calculate_importance (tweet_analyzer.py 169-210).        *)
(***************************************************************************)
\* round(x, 2) of x ten-thousandths, in hundredths.  x is a binary float: at
\* an exact decimal tie the float lies on either side of it, so both
\* neighbours are possible results.
Round2(x) ==
    LET q == x \div 100
        rem == x - 100 * q
    IN  IF rem < 50 THEN { q }
        ELSE IF rem > 50 THEN { q + 1 }
        ELSE { q, q + 1 }

\* lines 189-196
SpecificityTerm(coin_count) ==
    IF coin_count = 1 THEN 3000
    ELSE IF coin_count > 1 THEN 2000
    ELSE 0

\* lines 199-202
SentimentTerm(sentiment) ==
    IF sentiment = "positive" THEN 2000
    ELSE IF sentiment = "negative" THEN 1500
    ELSE 0

\* lines 184-187 with a single mention weighted like several
ImportanceScoreFlatSpecificity(retweet_count, like_count, coin_count, sentiment) ==
    LET engagement_score == Min(10000, (retweet_count * 100 + like_count * 50) \div 10)
    IN  Min(10000, (engagement_score * 4) \div 10
                   + (IF coin_count >= 1 THEN 2000 ELSE 0)
                   + SentimentTerm(sentiment))

\* lines 181-210 before the rounding: min(1.0, score), in ten-thousandths
ImportanceScore(retweet_count, like_count, coin_count, sentiment) ==
    LET engagement_score == Min(10000, (retweet_count * 100 + like_count * 50) \div 10)
    IN  Min(10000, (engagement_score * 4) \div 10
                   + SpecificityTerm(coin_count)
                   + SentimentTerm(sentiment))

\* the whole method: the outcomes it can have.  Arithmetic on a count that is
\* not a number raises TypeError.
_calculate_importance(tweet, coins_mentioned, sentiment) ==
    LET retweet_count == Get(tweet, "retweet_count", PyInt(0))
        like_count == Get(tweet, "like_count", PyInt(0))
    IN  IF retweet_count.type # "int" \/ like_count.type # "int"
        THEN { Raised }
        ELSE { Returned(v) :
                 v \in Round2(ImportanceScore(retweet_count.val, like_count.val,
                                              Len(coins_mentioned), sentiment)) }

(***************************************************************************)
(* TweetAnalyzer._extract_coins (tweet_analyzer.py 111-136).               *)
(***************************************************************************)
\* lines 126-128: the keywords found in the text, in keyword order
RECURSIVE KeywordMatches(_, _)
KeywordMatches(text_lower, keywords) ==
    IF keywords = << >> THEN << >>
    ELSE (IF Contains(text_lower, Lower(Head(keywords)))
          THEN << Head(keywords) >> ELSE << >>)
         \o KeywordMatches(text_lower, Tail(keywords))

\* the longest run of [a-zA-Z0-9] that starts at position i
RECURSIVE AlnumRun(_, _)
AlnumRun(text, i) ==
    IF i <= Len(text) /\ IsAlnum(text[i])
    THEN << text[i] >> \o AlnumRun(text, i + 1)
    ELSE << >>

\* lines 131-132: re.findall(r'\$([a-zA-Z0-9]+)', text) from position i on
RECURSIVE FindCashtags(_, _)
FindCashtags(text, i) ==
    IF i > Len(text) THEN << >>
    ELSE LET run == AlnumRun(text, i + 1)
         IN  IF text[i] = "$" /\ run # << >>
             THEN << run >> \o FindCashtags(text, i + 1 + Len(run))
             ELSE FindCashtags(text, i + 1)

\* the lists without repetition that hold exactly the elements of a set
ListsOf(S) ==
    { l \in [1 .. Cardinality(S) -> S] : Range(l) = S }

\* the whole method: the outcomes it can have.  Iterating keywords that are
\* no list, or calling lower() on a keyword that is no string, raises;
\* list(set(coins)) has the order of the set's hash table, which differs
\* from run to run.
_extract_coins(text, keywords) ==
    IF keywords.type # "list" THEN { Raised }
    ELSE LET coins == KeywordMatches(Lower(text), keywords.val)
                      \o FindCashtags(text, 1)
         IN  { Returned(l) : l \in ListsOf(Range(coins)) }

(***************************************************************************)
(* TweetAnalyzer.analyze_tweet (tweet_analyzer.py 75-109).                 *)
(***************************************************************************)
\* lines 105-109
NeutralDefault ==
    [ coins_mentioned |-> << >>, sentiment |-> "neutral", importance_score |-> 0 ]

\* lines 87-102: the body of the try block, an exception ending it
AnalyzeTweetBody(analyzer, lexicon, tweet, keywords, polarity) ==
    LET raw == Get(tweet, "text", PyStr(<< >>))
    IN  IF raw.type # "str" THEN { Raised }
        ELSE LET text == Lower(raw.val)
                 sentiment == _analyze_sentiment(analyzer, lexicon, text, polarity)
             IN  UNION { IF coins.raised \/ sentiment.raised THEN { Raised }
                         ELSE { IF importance.raised THEN Raised
                                ELSE Returned([ coins_mentioned |-> coins.value,
                                                sentiment |-> sentiment.value,
                                                importance_score |-> importance.value ]) :
                                  importance \in _calculate_importance(tweet, coins.value,
                                                                       sentiment.value) } :
                         coins \in _extract_coins(text, keywords) }

\* the method with the handler of lines 103-109 removed
AnalyzeTweetUncaught(analyzer, lexicon, tweet, keywords, polarity) ==
    AnalyzeTweetBody(analyzer, lexicon, tweet, keywords, polarity)

\* the whole method: lines 103-109 turn every exception into the default
analyze_tweet(analyzer, lexicon, tweet, keywords, polarity) ==
    { IF r.raised THEN Returned(NeutralDefault) ELSE r :
        r \in AnalyzeTweetBody(analyzer, lexicon, tweet, keywords, polarity) }

(***************************************************************************)
(* Sequences.                                                              *)
(***************************************************************************)
\* l[:n]
Take(l, n) == SubSeq(l, 1, Min(n, Len(l)))

\* ",".join(items) and ", ".join(items)
RECURSIVE Join(_, _)
Join(items, sep) ==
    IF items = << >> THEN << >>
    ELSE IF Len(items) = 1 THEN items[1]
    ELSE items[1] \o sep \o Join(Tail(items), sep)

\* str.split(",") from position i on, `current` the item being read
RECURSIVE SplitFrom(_, _, _)
SplitFrom(str, i, current) ==
    IF i > Len(str) THEN << current >>
    ELSE IF str[i] = "," THEN << current >> \o SplitFrom(str, i + 1, << >>)
    ELSE SplitFrom(str, i + 1, Append(current, str[i]))

\* str.split(",")
Split(str) == SplitFrom(str, 1, << >>)

\* str.strip()
RECURSIVE Strip(_)
Strip(str) ==
    IF str = << >> THEN str
    ELSE IF Head(str) = " " THEN Strip(Tail(str))
    ELSE IF str[Len(str)] = " " THEN Strip(SubSeq(str, 1, Len(str) - 1))
    ELSE str

\* collections.Counter(items): the distinct items in the order they are first
\* met, each with the number of times it occurs
RECURSIVE CountInto(_, _)
CountInto(counts, items) ==
    IF items = << >> THEN counts
    ELSE LET x == Head(items)
             seen == \E i \in DOMAIN counts : counts[i].key = x
             counted == IF seen
                        THEN [ i \in DOMAIN counts |->
                                 IF counts[i].key = x
                                 THEN [ key |-> x, count |-> counts[i].count + 1 ]
                                 ELSE counts[i] ]
                        ELSE Append(counts, [ key |-> x, count |-> 1 ])
         IN  CountInto(counted, Tail(items))

Counter(items) == CountInto(<< >>, items)

\* sorted(items, key=..., reverse=True), keys[i] being the key of items[i]:
\* the sort is stable, so an item comes after the items of larger key and
\* after the earlier items of equal key
StableSortDesc(items, keys) ==
    LET place(i) ==
            Cardinality({ j \in DOMAIN items : keys[j] > keys[i] })
            + Cardinality({ j \in 1 .. i : keys[j] = keys[i] })
    IN  [ p \in DOMAIN items |-> items[CHOOSE i \in DOMAIN items : place(i) = p] ]

(***************************************************************************)
(* Time.  The clock counts hours; strftime("%Y-%m-%d") keeps the day.      *)
(***************************************************************************)
\* timedelta(days=n), in hours
Days(n) == n * 24

\* strftime("%Y-%m-%d")
DateOf(t) == t \div 24

(***************************************************************************)
(* The store behind db_handler.  database.py is not among the sources: the *)
(* store keeps what it is given, appends a row per update_coin_trend and a *)
(* snapshot per update_statistics (spec section 3: rows are never merged   *)
(* at write time), and selects by date.  Any of its calls may raise.       *)
(***************************************************************************)
\* db.get_tweets(start_date=...): the posts created at or after start_time
DbGetTweets(db, start_time) ==
    SelectSeq(db.tweets, LAMBDA tweet : tweet.created_at >= start_time)

\* db.update_coin_trend(coin=..., mention_count=..., timestamp=...)
DbUpdateCoinTrend(db, row) ==
    [ db EXCEPT !.coin_trends = Append(@, row) ]

\* db.update_statistics(stats)
DbUpdateStatistics(db, stats) ==
    [ db EXCEPT !.statistics = Append(@, stats) ]

\* db.get_coin_trends(start_date=..., end_date=...): the rows written on a
\* day of the window, both ends included
DbGetCoinTrends(db, start_date, end_date) ==
    SelectSeq(db.coin_trends,
              LAMBDA row : /\ start_date <= DateOf(row.timestamp)
                           /\ DateOf(row.timestamp) <= end_date)

\* the fault of one call of the processor: no store call raises, or the
\* call-th call of op does
NoFault == [op |-> "none", call |-> 0]

(***************************************************************************)
(* DataProcessor._update_trends (data_processor.py 59-87).                 *)
(***************************************************************************)
\* lines 70-73 for one post: the coins it adds to all_coins
TrendCoinsOf(tweet) ==
    LET coins == Get(tweet, "coins_mentioned", PyList(<< >>))
    IN  IF coins.type = "str"
        THEN LET parts == Split(coins.val)
             IN  [ i \in DOMAIN parts |-> Strip(parts[i]) ]
        ELSE coins.val

\* lines 68-74
RECURSIVE TrendAllCoins(_)
TrendAllCoins(tweets) ==
    IF tweets = << >> THEN << >>
    ELSE TrendCoinsOf(Head(tweets)) \o TrendAllCoins(Tail(tweets))

\* lines 77-85: the rows the loop hands to update_coin_trend, in dict order
TrendRows(tweets, t) ==
    LET coin_counts == Counter(TrendAllCoins(tweets))
    IN  [ i \in DOMAIN coin_counts |->
            [ coin |-> coin_counts[i].key,
              mention_count |-> coin_counts[i].count,
              timestamp |-> t ] ]

\* the rows that reach the store: a call that raises ends the loop (line 86)
WrittenRows(rows, fault) ==
    IF fault.op = "update_coin_trend" /\ fault.call <= Len(rows)
    THEN SubSeq(rows, 1, fault.call - 1)
    ELSE rows

RECURSIVE StoreRows(_, _)
StoreRows(db, rows) ==
    IF rows = << >> THEN db
    ELSE StoreRows(DbUpdateCoinTrend(db, Head(rows)), Tail(rows))

\* the whole method
_update_trends(db, tweets, t, fault) ==
    StoreRows(db, WrittenRows(TrendRows(tweets, t), fault))

(***************************************************************************)
(* DataProcessor._update_statistics (data_processor.py 89-134).            *)
(***************************************************************************)
\* Series.value_counts().to_dict(): a dict is the sequence of its items in
\* insertion order; value_counts puts the larger counts first
ValueCounts(values) ==
    LET counts == Counter(values)
    IN  StableSortDesc(counts, [ i \in DOMAIN counts |-> counts[i].count ])

\* lines 114-116 only: a comma-separated string adds nothing
StatisticsCoinsOfListsOnly(tweet) ==
    LET coins == tweet.coins_mentioned
    IN  IF coins.type = "list" THEN coins.val ELSE << >>

\* lines 114-118 for one post; a value that is neither list nor str adds nothing
StatisticsCoinsOf(tweet) ==
    LET coins == tweet.coins_mentioned
    IN  IF coins.type = "list" THEN coins.val
        ELSE IF coins.type = "str"
        THEN LET parts == Split(coins.val)
             IN  [ i \in DOMAIN parts |-> Strip(parts[i]) ]
        ELSE << >>

RECURSIVE StatisticsAllCoins(_)
StatisticsAllCoins(tweets) ==
    IF tweets = << >> THEN << >>
    ELSE StatisticsCoinsOf(Head(tweets)) \o StatisticsAllCoins(Tail(tweets))

\* Counter.most_common(n)
MostCommon(counts, n) ==
    Take(StableSortDesc(counts, [ i \in DOMAIN counts |-> counts[i].count ]), n)

\* lines 104-129
StatisticsOf(tweets, t) ==
    [ timestamp |-> t,
      total_tweets |-> Len(tweets),
      sentiment_distribution |-> ValueCounts([ i \in DOMAIN tweets |-> tweets[i].sentiment ]),
      tweets_by_celebrity |-> ValueCounts([ i \in DOMAIN tweets |-> tweets[i].username ]),
      top_coins |-> MostCommon(Counter(StatisticsAllCoins(tweets)), 10) ]

\* the whole method
_update_statistics(db, tweets, t, fault) ==
    IF tweets = << >> \/ fault.op = "update_statistics" THEN db
    ELSE DbUpdateStatistics(db, StatisticsOf(tweets, t))

(***************************************************************************)
(* DataProcessor.process_recent_data (data_processor.py 30-57).            *)
(***************************************************************************)
\* line 30: hours=24, the value the loop of main() runs with
DefaultHours == 24

\* lines 42-43
RecentTweets(db, t, hours) == DbGetTweets(db, t - hours)

\* the method without its guards on an empty batch (lines 45-47, 100-101)
ProcessRecentDataAlwaysSnapshot(db, t, hours, fault) ==
    IF fault.op = "get_tweets" THEN db
    ELSE LET tweets == RecentTweets(db, t, hours)
         IN  IF fault.op = "update_statistics"
             THEN _update_trends(db, tweets, t, fault)
             ELSE DbUpdateStatistics(_update_trends(db, tweets, t, fault),
                                     StatisticsOf(tweets, t))

\* the whole method
process_recent_data(db, t, hours, fault) ==
    IF fault.op = "get_tweets" THEN db
    ELSE LET tweets == RecentTweets(db, t, hours)
         IN  IF tweets = << >> THEN db
             ELSE _update_statistics(_update_trends(db, tweets, t, fault),
                                     tweets, t, fault)

(***************************************************************************)
(* DataProcessor.get_trends (data_processor.py 136-197).                   *)
(***************************************************************************)
NoDate == [given |-> FALSE, date |-> 0]
Date(d) == [given |-> TRUE, date |-> d]

\* lines 150-164: the window, as << start_date, end_date >>
TrendsWindow(t, timeframe, start_date, end_date) ==
    IF timeframe = "custom" /\ start_date.given /\ end_date.given
    THEN << start_date.date, end_date.date >>
    ELSE IF timeframe = "day" THEN << DateOf(t - Days(1)), DateOf(t) >>
    ELSE IF timeframe = "week" THEN << DateOf(t - Days(7)), DateOf(t) >>
    ELSE IF timeframe = "month" THEN << DateOf(t - Days(30)), DateOf(t) >>
    ELSE << DateOf(t - Days(1)), DateOf(t) >>

\* the loop of lines 174-186 with `=` in place of `+=`: the last row of a
\* coin replaces the earlier ones
RECURSIVE AggregateLastRowWins(_, _)
AggregateLastRowWins(coin_data, rows) ==
    IF rows = << >> THEN coin_data
    ELSE LET trend == Head(rows)
             summary == [ coin |-> trend.coin,
                          mention_count |-> Get(trend, "mention_count", 0),
                          sentiment_score |-> Get(trend, "sentiment_score", 0),
                          celebrity_mentions |-> Get(trend, "celebrity_mentions", 0) ]
             stored == IF \E i \in DOMAIN coin_data : coin_data[i].coin = trend.coin
                       THEN [ i \in DOMAIN coin_data |->
                                IF coin_data[i].coin = trend.coin THEN summary
                                ELSE coin_data[i] ]
                       ELSE Append(coin_data, summary)
         IN  AggregateLastRowWins(stored, Tail(rows))

\* lines 173-186: coin_data, in the order the coins are first met
RECURSIVE AggregateByCoin(_, _)
AggregateByCoin(coin_data, rows) ==
    IF rows = << >> THEN coin_data
    ELSE LET trend == Head(rows)
             coin == trend.coin
             known == IF \E i \in DOMAIN coin_data : coin_data[i].coin = coin
                      THEN coin_data
                      ELSE Append(coin_data, [ coin |-> coin, mention_count |-> 0,
                                               sentiment_score |-> 0,
                                               celebrity_mentions |-> 0 ])
             added == [ i \in DOMAIN known |->
                          IF known[i].coin = coin
                          THEN [ known[i] EXCEPT
                                   !.mention_count = @ + Get(trend, "mention_count", 0),
                                   !.sentiment_score = @ + Get(trend, "sentiment_score", 0),
                                   !.celebrity_mentions = @ + Get(trend, "celebrity_mentions", 0) ]
                          ELSE known[i] ]
         IN  AggregateByCoin(added, Tail(rows))

\* lines 169-193 without the sort of line 190
MergeTrendsUnsorted(rows) ==
    IF rows = << >> THEN << >>
    ELSE Take(AggregateByCoin(<< >>, rows), 20)

\* lines 169-193
MergeTrends(rows) ==
    IF rows = << >> THEN << >>
    ELSE LET result == AggregateByCoin(<< >>, rows)
         IN  Take(StableSortDesc(result, [ i \in DOMAIN result |->
                                             result[i].mention_count ]), 20)

\* a value the store hands out that is not a dict (None), kept with the time
\* it was stored at: calling .get on it raises AttributeError
Malformed(t) == [ type |-> "NoneType", val |-> 0, timestamp |-> t ]

IsDict(value) == "type" \notin DOMAIN value

\* the whole method: the except of lines 195-197 answers every exception,
\* of the fetch (line 167) or of the merge (line 175), with []
get_trends(db, t, timeframe, start_date, end_date, fault) ==
    IF fault.op = "get_coin_trends" THEN << >>
    ELSE LET window == TrendsWindow(t, timeframe, start_date, end_date)
             rows == DbGetCoinTrends(db, window[1], window[2])
         IN  IF \E i \in DOMAIN rows : ~IsDict(rows[i]) THEN << >>
             ELSE MergeTrends(rows)

(***************************************************************************)
(* DataProcessor.get_statistics (data_processor.py 199-270).               *)
(***************************************************************************)
\* db.get_statistics(start_date=...): the snapshots written on or after a day
DbGetStatistics(db, start_date) ==
    SelectSeq(db.statistics, LAMBDA stat : start_date <= DateOf(stat.timestamp))

\* lines 211-218 with the first branch only
StatisticsStartAlwaysDay(t, timeframe) == DateOf(t - Days(1))

\* lines 211-218
StatisticsStart(t, timeframe) ==
    IF timeframe = "day" THEN DateOf(t - Days(1))
    ELSE IF timeframe = "week" THEN DateOf(t - Days(7))
    ELSE IF timeframe = "month" THEN DateOf(t - Days(30))
    ELSE DateOf(t - Days(1))

\* lines 224-229 and 265-270
EmptyStatistics ==
    [ total_tweets |-> 0, sentiment_distribution |-> << >>,
      tweets_by_celebrity |-> << >>, top_coins |-> << >> ]

\* line 232 reading the first snapshot only
SumTotalTweetsOfFirst(all_stats) ==
    IF all_stats = << >> THEN 0 ELSE Get(Head(all_stats), "total_tweets", 0)

\* line 232
RECURSIVE SumTotalTweets(_)
SumTotalTweets(all_stats) ==
    IF all_stats = << >> THEN 0
    ELSE Get(Head(all_stats), "total_tweets", 0) + SumTotalTweets(Tail(all_stats))

\* lines 237-238, 243-244, 249-250: merged[key] = merged.get(key, 0) + count
\* for the items of one dict
RECURSIVE AddItems(_, _)
AddItems(merged, items) ==
    IF items = << >> THEN merged
    ELSE LET item == Head(items)
             added == IF \E i \in DOMAIN merged : merged[i].key = item.key
                      THEN [ i \in DOMAIN merged |->
                               IF merged[i].key = item.key
                               THEN [ key |-> item.key,
                                      count |-> merged[i].count + item.count ]
                               ELSE merged[i] ]
                      ELSE Append(merged, [ key |-> item.key, count |-> 0 + item.count ])
         IN  AddItems(added, Tail(items))

\* lines 235-250 reading the first snapshot only
MergeFieldOfFirst(merged, all_stats, field) ==
    IF all_stats = << >> THEN merged
    ELSE AddItems(merged, Get(Head(all_stats), field, << >>))

\* lines 235-250: one field merged over the snapshots
RECURSIVE MergeField(_, _, _)
MergeField(merged, all_stats, field) ==
    IF all_stats = << >> THEN merged
    ELSE MergeField(AddItems(merged, Get(Head(all_stats), field, << >>)),
                    Tail(all_stats), field)

\* the sort of lines 253-254 without the [:10]
SortOnly(items, limit) ==
    StableSortDesc(items, [ i \in DOMAIN items |-> items[i].count ])

\* lines 253-254: dict(sorted(items, key=count, reverse=True)[:10])
SortAndLimit(items, limit) ==
    Take(StableSortDesc(items, [ i \in DOMAIN items |-> items[i].count ]), limit)

\* lines 232-261
MergeStatistics(all_stats) ==
    [ total_tweets |-> SumTotalTweets(all_stats),
      sentiment_distribution |-> MergeField(<< >>, all_stats, "sentiment_distribution"),
      tweets_by_celebrity |->
          SortAndLimit(MergeField(<< >>, all_stats, "tweets_by_celebrity"), 10),
      top_coins |-> SortAndLimit(MergeField(<< >>, all_stats, "top_coins"), 10) ]

\* get_statistics skipping a snapshot that is not a dict, where the code
\* gives up the whole merge
GetStatisticsSkippingBadSnapshots(db, t, timeframe, fault) ==
    IF fault.op = "get_statistics" THEN EmptyStatistics
    ELSE MergeStatistics(SelectSeq(DbGetStatistics(db, StatisticsStart(t, timeframe)),
                                   IsDict))

\* the whole method: the except of lines 263-270 answers every exception,
\* of the fetch (line 221) or of the merge (line 232), with the empty result
get_statistics(db, t, timeframe, fault) ==
    IF fault.op = "get_statistics" THEN EmptyStatistics
    ELSE LET all_stats == DbGetStatistics(db, StatisticsStart(t, timeframe))
         IN  IF all_stats = << >> THEN EmptyStatistics
             ELSE IF \E i \in DOMAIN all_stats : ~IsDict(all_stats[i])
             THEN EmptyStatistics
             ELSE MergeStatistics(all_stats)

(***************************************************************************)
(* The program: the listener stores analysed posts, the loop of main()     *)
(* runs the processing cycle, the API asks for the trends.                 *)
(***************************************************************************)
NoCall == [op |-> "none"]
NoCycle == [n |-> 0, batch |-> << >>, rows |-> << >>]
NoTrends == [asked |-> FALSE]

Db == [ tweets |-> tweets_db, coin_trends |-> coin_trends, statistics |-> statistics ]

StoreInit ==
    /\ tweets_db = << >>
    /\ coin_trends = << >>
    /\ statistics = << >>
    /\ now = 0
    /\ cycle = NoCycle
    /\ trends = NoTrends

StoreCoins == { doge, shib }

\* what the store may hold for a post that mentions the coins S: a list
\* without repetition (_extract_coins ends with list(set(coins))), or that
\* list as a comma-separated string (lines 71-73)
Representations(S) ==
    { PyList(l) : l \in ListsOf(S) }
    \cup { PyStr(Join(l, <<",", " ">>)) : l \in ListsOf(S) }

\* the authors of the sample, each with the category of what they post
Authors ==
    { [ username |-> "elonmusk", sentiment |-> "positive" ],
      [ username |-> "snoopdogg", sentiment |-> "negative" ] }

\* the listener stores a post with its analysis
StoreTweet ==
    /\ Len(tweets_db) < MaxTweets
    /\ \E S \in SUBSET StoreCoins, author \in Authors :
         \E coins \in Representations(S) :
            tweets_db' = Append(tweets_db, [ coins_mentioned |-> coins,
                                             sentiment |-> author.sentiment,
                                             username |-> author.username,
                                             created_at |-> now ])
    /\ UNCHANGED << coin_trends, statistics, now, cycle, trends >>
    /\ UNCHANGED analyzer_vars
    /\ UNCHANGED service_vars

\* 12 hours pass
Tick ==
    /\ now < MaxTicks * 12
    /\ now' = now + 12
    /\ UNCHANGED << tweets_db, coin_trends, statistics, cycle, trends >>
    /\ UNCHANGED analyzer_vars
    /\ UNCHANGED service_vars

\* one iteration of the loop of main() (main.py 75-79), no store call raising
ProcessRecentData ==
    /\ cycle.n < MaxCycles
    /\ LET after == process_recent_data(Db, now, DefaultHours, NoFault)
       IN  /\ coin_trends' = after.coin_trends
           /\ statistics' = after.statistics
           /\ cycle' = [ n |-> cycle.n + 1,
                         batch |-> RecentTweets(Db, now, DefaultHours),
                         rows |-> SubSeq(after.coin_trends, Len(coin_trends) + 1,
                                         Len(after.coin_trends)) ]
    /\ UNCHANGED << tweets_db, now, trends >>
    /\ UNCHANGED analyzer_vars
    /\ UNCHANGED service_vars

Timeframes == { "day", "week", "month", "custom", "year" }

\* a request for the trends, no store call raising
GetTrends ==
    /\ \E timeframe \in Timeframes, start_date \in { NoDate, Date(0) },
          end_date \in { NoDate, Date(0) } :
         /\ (timeframe # "custom") => (start_date = NoDate /\ end_date = NoDate)
         /\ trends' = [ asked |-> TRUE,
                        window |-> TrendsWindow(now, timeframe, start_date, end_date),
                        result |-> get_trends(Db, now, timeframe, start_date,
                                              end_date, NoFault) ]
    /\ UNCHANGED << tweets_db, coin_trends, statistics, now, cycle >>
    /\ UNCHANGED analyzer_vars
    /\ UNCHANGED service_vars

Init ==
    /\ sentiment_analyzer = "ok"
    /\ crypto_lexicon = _load_crypto_lexicon
    /\ input = [ none |-> TRUE ]
    /\ output = NoCall
    /\ StoreInit
    /\ ServiceInit

Next == StoreTweet \/ Tick \/ ProcessRecentData \/ GetTrends

Spec == Init /\ [][Next]_vars

(***************************************************************************)
(* Specification of _analyze_sentiment: any text over the vocabulary, any  *)
(* base polarity of the sample, any state of the sentiment model.          *)
(***************************************************************************)
SentimentWords ==
    { <<"m","o","o","n">>, <<"m","o","o","n","i","n","g">>,
      <<"b","u","l","l","i","s","h">>, <<"b","e","a","r","i","s","h">>,
      <<"r","u","g","p","u","l","l">>, <<"U+1F680">>, <<"M","O","O","N">>, <<" ">> }

\* base polarities: the ends of the range, both sides of both thresholds
BaseScores == { -10000, -500, -499, 0, 499, 500, 9000, 10000 }

AnalyzerStates == { "ok", "none", "broken" }

InitSentiment ==
    /\ sentiment_analyzer \in AnalyzerStates
    /\ crypto_lexicon = _load_crypto_lexicon
    /\ input \in [ text : TextsOver(SentimentWords, MaxPieces), polarity : BaseScores ]
    /\ output = NoCall
    /\ StoreInit
    /\ ServiceInit

CallAnalyzeSentiment ==
    /\ output = NoCall
    /\ output' = [ op |-> "_analyze_sentiment",
                   ret |-> _analyze_sentiment(sentiment_analyzer, crypto_lexicon,
                                              input.text, input.polarity),
                   steps |-> IF sentiment_analyzer = "ok"
                             THEN CompoundSteps(input.text, crypto_lexicon,
                                                input.polarity)
                             ELSE << >> ]
    /\ UNCHANGED << sentiment_analyzer, crypto_lexicon, input >>
    /\ UNCHANGED store_vars
    /\ UNCHANGED service_vars

NextSentiment == CallAnalyzeSentiment

SpecSentiment == InitSentiment /\ [][NextSentiment]_vars

(***************************************************************************)
(* Specification of _calculate_importance: engagement counts present,      *)
(* missing or negative, any list of coins, any category.                   *)
(***************************************************************************)
\* dicts over some of the keys ks, each present key with one of its values
RECURSIVE DictsOverKeys(_, _)
DictsOverKeys(values, ks) ==
    IF ks = { } THEN { << >> }
    ELSE LET k == CHOOSE x \in ks : TRUE
             rest == DictsOverKeys(values, ks \ { k })
         IN  rest \cup { d @@ (k :> v) : d \in rest, v \in values[k] }

DictsOver(values) == DictsOverKeys(values, DOMAIN values)

EngagementCounts == { -1000, -1, 0, 1, 13, 25, 500, 1000, 5000 }

Categories == { "positive", "negative", "neutral" }

CoinLists == { << >>, << doge >>, << doge, shib >>, << DOGE, doge, shib >> }

InitImportance ==
    /\ sentiment_analyzer = "ok"
    /\ crypto_lexicon = _load_crypto_lexicon
    /\ input \in [ tweet : DictsOver([ retweet_count |-> { PyInt(n) : n \in EngagementCounts },
                                       like_count |-> { PyInt(n) : n \in EngagementCounts } ]),
                   coins_mentioned : CoinLists,
                   sentiment : Categories ]
    /\ output = NoCall
    /\ StoreInit
    /\ ServiceInit

CallCalculateImportance ==
    /\ output = NoCall
    /\ \E r \in _calculate_importance(input.tweet, input.coins_mentioned, input.sentiment) :
         output' = [ op |-> "_calculate_importance", ret |-> r ]
    /\ UNCHANGED << sentiment_analyzer, crypto_lexicon, input >>
    /\ UNCHANGED store_vars
    /\ UNCHANGED service_vars

NextImportance == CallCalculateImportance

SpecImportance == InitImportance /\ [][NextImportance]_vars

(***************************************************************************)
(* Specification of analyze_tweet: text missing, not a string or any text  *)
(* over the vocabulary; keywords a list or not; counts present, missing or *)
(* not a number; any state of the sentiment model.                         *)
(***************************************************************************)
TweetWords ==
    { <<"$">> \o DOGE, <<"$">> \o doge,
      <<" ","t","o"," ","t","h","e"," ","m","o","o","n"," ">>,
      <<"$">>, shib }

KeywordLists ==
    { PyNone, PyList(<< >>), PyList(<< doge >>), PyList(<< DOGE >>),
      PyList(<< doge, shib >>), PyList(<< shib, doge >>) }

AnalyzePolarities == { -10000, 0 }

InitAnalyze ==
    /\ sentiment_analyzer \in AnalyzerStates
    /\ crypto_lexicon = _load_crypto_lexicon
    /\ input \in [ tweet : DictsOver([ text |-> { PyStr(t) : t \in TextsOver(TweetWords, MaxPieces) }
                                                \cup { PyNone, PyInt(7) },
                                       retweet_count |-> { PyInt(500), PyNone },
                                       like_count |-> { PyInt(100) } ]),
                   keywords : KeywordLists,
                   polarity : AnalyzePolarities ]
    /\ output = NoCall
    /\ StoreInit
    /\ ServiceInit

CallAnalyzeTweet ==
    /\ output = NoCall
    /\ \E r \in analyze_tweet(sentiment_analyzer, crypto_lexicon, input.tweet,
                              input.keywords, input.polarity) :
         output' = [ op |-> "analyze_tweet", ret |-> r ]
    /\ UNCHANGED << sentiment_analyzer, crypto_lexicon, input >>
    /\ UNCHANGED store_vars
    /\ UNCHANGED service_vars

NextAnalyze == CallAnalyzeTweet

SpecAnalyze == InitAnalyze /\ [][NextAnalyze]_vars

(***************************************************************************)
(* Claims about _analyze_sentiment, checked under SpecSentiment.           *)
(***************************************************************************)
SentimentCalled == output.op = "_analyze_sentiment"

\* the adjustments of all lexicon entries found in the lower-cased text
RECURSIVE MatchingSum(_, _, _)
MatchingSum(text, lexicon, i) ==
    IF i > Len(lexicon) THEN 0
    ELSE (IF Contains(Lower(text), lexicon[i].term) THEN lexicon[i].score ELSE 0)
         + MatchingSum(text, lexicon, i + 1)

PositiveMatchingSum(text, lexicon) ==
    MatchingSum(text, [ i \in DOMAIN lexicon |->
                          [ term |-> lexicon[i].term,
                            score |-> Max(0, lexicon[i].score) ] ], 1)

NoNegativeMatch(text, lexicon) ==
    \A i \in DOMAIN lexicon :
        lexicon[i].score < 0 => ~ Contains(Lower(text), lexicon[i].term)

FinalCompound == output.steps[Len(output.steps)]

\* C5: with a working sentiment model, the category returned is the
\* classification of the base polarity plus the adjustments of all matching
\* lexicon entries, clamped to [-1.0, 1.0] once after all of them are added;
\* it does not depend on the order in which the entries are visited.
C5_ClampedOnceAfterAllAdjustments ==
    (SentimentCalled /\ sentiment_analyzer = "ok") =>
        LET once == Max(-10000, Min(10000,
                        input.polarity + MatchingSum(input.text, crypto_lexicon, 1)))
        IN  output.ret = Returned(Classify(once))

\* C6: with a working sentiment model and a base polarity in [-1.0, 1.0], the
\* compound score is in [-1.0, 1.0] after every adjustment and when it is
\* classified; when the base plus the positive adjustments exceeds 1.0 and no
\* negative entry matches, the classified compound is exactly 1.0.
C6_CompoundStaysClamped ==
    (SentimentCalled /\ sentiment_analyzer = "ok") =>
        /\ \A i \in DOMAIN output.steps : output.steps[i] \in -10000 .. 10000
        /\ ( /\ input.polarity + PositiveMatchingSum(input.text, crypto_lexicon) > 10000
             /\ NoNegativeMatch(input.text, crypto_lexicon) )
           => FinalCompound = 10000

\* the rocket emoji, "moon" and "bullish" on a positive base: the sum passes 1.0
C6_Witness ==
    /\ SentimentCalled /\ sentiment_analyzer = "ok"
    /\ Contains(input.text, <<"U+1F680">>)
    /\ Contains(input.text, <<"m","o","o","n">>)
    /\ Contains(input.text, <<"b","u","l","l","i","s","h">>)
    /\ input.polarity + MatchingSum(input.text, crypto_lexicon, 1) > 10000
    /\ FinalCompound = 10000

\* C7: whenever _analyze_sentiment returns, it returns one of the three
\* categories; with a working model it is "positive" exactly when the compound
\* score is >= 0.05, "negative" exactly when it is <= -0.05, and "neutral"
\* exactly when it lies strictly between.
C7_ClassificationBoundaries ==
    (SentimentCalled /\ ~ output.ret.raised) =>
        /\ output.ret.value \in { "positive", "negative", "neutral" }
        /\ sentiment_analyzer = "ok" =>
             /\ (output.ret.value = "positive") <=> (FinalCompound >= 500)
             /\ (output.ret.value = "negative") <=> (FinalCompound <= -500)
             /\ (output.ret.value = "neutral")
                    <=> (FinalCompound > -500 /\ FinalCompound < 500)

\* a compound of exactly 0.05, classified positive
C7_Witness ==
    /\ SentimentCalled /\ sentiment_analyzer = "ok"
    /\ FinalCompound = 500
    /\ output.ret = Returned("positive")

\* C8 as stated: without a sentiment model the base score is 0.0 and the
\* lexicon adjustment and the classification are still applied to it.
C8_LexiconAppliedWithoutModel ==
    (SentimentCalled /\ sentiment_analyzer = "none") =>
        output.ret = Returned(Classify(Compound(input.text, crypto_lexicon, 0)))

\* C8 amended: without a sentiment model _analyze_sentiment does not raise and
\* returns "neutral" for every text, whatever lexicon entries the text matches.
C8_NeutralWithoutModel ==
    (SentimentCalled /\ sentiment_analyzer = "none") =>
        output.ret = Returned("neutral")

\* no model, and a text whose lexicon entries alone would make it positive
C8_Witness ==
    /\ SentimentCalled /\ sentiment_analyzer = "none"
    /\ Classify(Compound(input.text, crypto_lexicon, 0)) = "positive"
    /\ output.ret = Returned("neutral")

(***************************************************************************)
(* Claims about _calculate_importance, checked under SpecImportance.       *)
(***************************************************************************)
ImportanceReturned ==
    output.op = "_calculate_importance" /\ ~ output.ret.raised

InputRetweets == Get(input.tweet, "retweet_count", PyInt(0)).val
InputLikes == Get(input.tweet, "like_count", PyInt(0)).val

\* C2: for every post, with counts present, missing or negative, any list of
\* coins and any category, the importance score returned lies in [0.0, 1.0].
C2_ImportanceInUnitRange ==
    ImportanceReturned => output.ret.value \in 0 .. 100

\* the weighted sum as the claim writes it, in ten-thousandths
WeightedSum(retweets, likes, coin_count, sentiment) ==
    (Min(10000, (retweets * 100 + likes * 50) \div 10) * 40) \div 100
    + (CASE coin_count = 1 -> 3000 [] coin_count > 1 -> 2000 [] OTHER -> 0)
    + (CASE sentiment = "positive" -> 2000 [] sentiment = "negative" -> 1500
         [] OTHER -> 0)

\* C3: for non-negative engagement counts the importance score is, rounded to
\* 2 decimals, min(1.0, (retweets*0.01 + likes*0.005)/10)*0.40 plus 0.30 for
\* exactly one coin, 0.20 for more, plus 0.20 for positive, 0.15 for negative
\* sentiment; zero engagement, one coin and positive sentiment give 0.50.
C3_ImportanceIsWeightedSum ==
    (ImportanceReturned /\ InputRetweets >= 0 /\ InputLikes >= 0) =>
        /\ output.ret.value \in
             Round2(WeightedSum(InputRetweets, InputLikes,
                                Len(input.coins_mentioned), input.sentiment))
        /\ ( /\ InputRetweets = 0 /\ InputLikes = 0
             /\ Len(input.coins_mentioned) = 1
             /\ input.sentiment = "positive" )
           => output.ret.value = 50

\* zero engagement, exactly one coin, positive sentiment: 0.50
C3_Witness ==
    /\ ImportanceReturned
    /\ InputRetweets = 0 /\ InputLikes = 0
    /\ input.coins_mentioned = << doge >>
    /\ input.sentiment = "positive"
    /\ output.ret.value = 50

(***************************************************************************)
(* Claims about analyze_tweet, checked under SpecAnalyze.                  *)
(***************************************************************************)
AnalyzeCalled == output.op = "analyze_tweet"

\* an internal step of the analysis fails on this input
StepFails ==
    \/ Get(input.tweet, "text", PyStr(<< >>)).type # "str"
    \/ input.keywords.type # "list"
    \/ sentiment_analyzer = "broken"
    \/ Get(input.tweet, "retweet_count", PyInt(0)).type # "int"
    \/ Get(input.tweet, "like_count", PyInt(0)).type # "int"

\* C4: analyze_tweet never raises; whenever an internal step fails (text not a
\* string, keywords not iterable, the sentiment model failing, a count that is
\* no number) the result is exactly the neutral default.
C4_AnalyzeNeverRaises ==
    AnalyzeCalled =>
        /\ ~ output.ret.raised
        /\ StepFails => output.ret.value = NeutralDefault

\* keywords that cannot be iterated, on a post whose text names a coin
C4_Witness ==
    /\ AnalyzeCalled
    /\ input.keywords = PyNone
    /\ Get(input.tweet, "text", PyStr(<< >>)) = PyStr(<<"$">> \o DOGE)
    /\ output.ret = Returned(NeutralDefault)

\* the text of the post as the caller passed it
OriginalText == Get(input.tweet, "text", PyStr(<< >>)).val

\* C9: the coins reported for a post are the duplicate-free union of the known
\* keywords that occur case-insensitively in the text and of the '$'-prefixed
\* alphanumeric symbol tags, spelled with the case they have in the original
\* post text.
C9_CoinsAreKeywordsAndOriginalCaseTags ==
    (AnalyzeCalled /\ ~ StepFails) =>
        LET coins == output.ret.value.coins_mentioned
        IN  /\ \A i, j \in DOMAIN coins : coins[i] = coins[j] => i = j
            /\ Range(coins) =
                 { k \in Range(input.keywords.val) :
                     Contains(Lower(OriginalText), Lower(k)) }
                 \cup Range(FindCashtags(OriginalText, 1))

(***************************************************************************)
(* Claims about the processing cycle and get_trends, checked under Spec.   *)
(***************************************************************************)
\* the coins a stored post mentions: the set its coins_mentioned represents
MentionedSet(post) ==
    CHOOSE S \in SUBSET StoreCoins : post.coins_mentioned \in Representations(S)

\* the number of posts of a sequence that mention a coin
MentioningPosts(posts, coin) ==
    Cardinality({ k \in DOMAIN posts : coin \in MentionedSet(posts[k]) })

\* the stored posts created on a day of a window
PostsInWindow(window) ==
    SelectSeq(tweets_db, LAMBDA post : /\ window[1] <= DateOf(post.created_at)
                                       /\ DateOf(post.created_at) <= window[2])

\* C1: after any sequence of processing cycles, the mention_count get_trends
\* returns for a coin never exceeds the number of stored posts of the window
\* that mention the coin: a post is counted at most once, however many cycles
\* have read it.
C1_MentionCountAtMostStoredPosts ==
    trends.asked =>
        \A i \in DOMAIN trends.result :
            trends.result[i].coin \in StoreCoins =>
                trends.result[i].mention_count
                    <= MentioningPosts(PostsInWindow(trends.window), trends.result[i].coin)

\* C10: a cycle over a non-empty batch writes exactly one trend row per
\* distinct coin mentioned in the batch, and the row's mention_count is the
\* number of posts of the batch that mention the coin.
C10_OneRowPerMentionedCoin ==
    (cycle.n > 0 /\ cycle.batch # << >>) =>
        /\ \A i, j \in DOMAIN cycle.rows :
               cycle.rows[i].coin = cycle.rows[j].coin => i = j
        /\ { cycle.rows[i].coin : i \in DOMAIN cycle.rows }
               = UNION { MentionedSet(cycle.batch[k]) : k \in DOMAIN cycle.batch }
        /\ \A i \in DOMAIN cycle.rows :
               cycle.rows[i].mention_count
                   = MentioningPosts(cycle.batch, cycle.rows[i].coin)

\* C11: every trend row a cycle writes carries, besides mention_count, the
\* summed sentiment score of the posts contributing to the coin and the
\* number of contributions by high-influence authors, the two fields
\* get_trends sums into sentiment_score and celebrity_mentions.
C11_RowsCarrySentimentAndInfluence ==
    cycle.n > 0 =>
        \A i \in DOMAIN cycle.rows :
            { "sentiment_score", "celebrity_mentions" } \subseteq DOMAIN cycle.rows[i]

(***************************************************************************)
(* Specification of one processing cycle: any sample posts in the store,   *)
(* all of them recent or all of them older than the 24 hours the cycle     *)
(* reads, any one store call of the cycle raising.                         *)
(***************************************************************************)
MaxBatch == 2       \* the batch of the cycle has at most this many posts

\* twelve coins, enough to overflow most_common(10)
ManyCoins == [ i \in 1 .. 12 |-> << "c", LowerCase[i] >> ]

\* what db.get_tweets may hand to the cycle: coins as a list or as a
\* comma-separated string, one coin, several, more than ten, or none
CyclePosts ==
    { [ coins_mentioned |-> PyList(<< doge >>),
        sentiment |-> "positive", username |-> "elonmusk", created_at |-> 0 ],
      [ coins_mentioned |-> PyList(<< shib, doge >>),
        sentiment |-> "negative", username |-> "snoopdogg", created_at |-> 0 ],
      [ coins_mentioned |-> PyStr(Join(<< doge, shib >>, <<",", " ">>)),
        sentiment |-> "neutral", username |-> "elonmusk", created_at |-> 0 ],
      [ coins_mentioned |-> PyList(SubSeq(ManyCoins, 1, 11)),
        sentiment |-> "positive", username |-> "snoopdogg", created_at |-> 0 ],
      [ coins_mentioned |-> PyList(<< ManyCoins[12], ManyCoins[11] >>),
        sentiment |-> "negative", username |-> "elonmusk", created_at |-> 0 ],
      [ coins_mentioned |-> PyList(<< >>),
        sentiment |-> "neutral", username |-> "snoopdogg", created_at |-> 0 ],
      [ coins_mentioned |-> PyStr(<< >>),
        sentiment |-> "positive", username |-> "snoopdogg", created_at |-> 0 ] }

\* the store calls of a cycle over a batch, any one of which may raise
CycleFaults(tweets) ==
    { NoFault, [ op |-> "get_tweets", call |-> 1 ] }
    \cup (IF tweets = << >> THEN { }
          ELSE { [ op |-> "update_statistics", call |-> 1 ] }
               \cup { [ op |-> "update_coin_trend", call |-> k ] :
                        k \in 1 .. Len(TrendRows(tweets, 0)) })

InitCycle ==
    /\ sentiment_analyzer = "ok"
    /\ crypto_lexicon = _load_crypto_lexicon
    /\ input = [ none |-> TRUE ]
    /\ output = NoCall
    /\ tweets_db \in UNION { [ 1 .. k -> CyclePosts ] : k \in 0 .. MaxBatch }
    /\ coin_trends = << >>
    /\ statistics = << >>
    /\ now \in { 0, Days(2) }
    /\ cycle = NoCycle
    /\ trends = NoTrends
    /\ ServiceInit

\* one iteration of the loop of main() (main.py 75-79)
RunCycle ==
    /\ cycle.n = 0
    /\ \E fault \in CycleFaults(RecentTweets(Db, now, DefaultHours)) :
         LET after == process_recent_data(Db, now, DefaultHours, fault)
         IN  /\ coin_trends' = after.coin_trends
             /\ statistics' = after.statistics
             /\ cycle' = [ n |-> 1,
                           batch |-> RecentTweets(Db, now, DefaultHours),
                           rows |-> after.coin_trends ]
             /\ output' = [ op |-> "process_recent_data", fault |-> fault ]
    /\ UNCHANGED << sentiment_analyzer, crypto_lexicon, input, tweets_db, now, trends >>
    /\ UNCHANGED service_vars

NextCycle == RunCycle

SpecCycle == InitCycle /\ [][NextCycle]_vars

(***************************************************************************)
(* Claims about one processing cycle, checked under SpecCycle.             *)
(***************************************************************************)
\* the cycle has run and no store call raised
CycleRan == cycle.n = 1 /\ output.fault = NoFault

\* C12 as stated: a cycle over a batch of zero posts writes no trend row and
\* a statistics snapshot with total_tweets = 0.
C12_EmptyBatchWritesZeroSnapshot ==
    (CycleRan /\ cycle.batch = << >>) =>
        /\ coin_trends = << >>
        /\ Len(statistics) = 1
        /\ statistics[1].total_tweets = 0

\* C12, amended: a cycle over a batch of zero posts is a no-op, it writes no
\* trend row and no statistics snapshot.
C12_EmptyBatchIsNoOp ==
    (CycleRan /\ cycle.batch = << >>) =>
        /\ coin_trends = << >>
        /\ statistics = << >>

C12_Witness ==
    /\ CycleRan
    /\ tweets_db # << >>
    /\ cycle.batch = << >>
    /\ statistics = << >>

\* the coins a post names, in the order it names them: the items of its
\* list, or the non-empty items of its comma-separated string
NamedCoins(post) ==
    IF post.coins_mentioned.type = "list" THEN post.coins_mentioned.val
    ELSE LET parts == Split(post.coins_mentioned.val)
         IN  SelectSeq([ i \in DOMAIN parts |-> Strip(parts[i]) ],
                       LAMBDA part : part # << >>)

\* the coins of a batch in the order they are met
RECURSIVE EncounterOrder(_)
EncounterOrder(batch) ==
    IF batch = << >> THEN << >>
    ELSE NamedCoins(Head(batch)) \o EncounterOrder(Tail(batch))

FirstSeen(order, coin) == CHOOSE i \in DOMAIN order :
    order[i] = coin /\ \A j \in 1 .. (i - 1) : order[j] # coin

\* the number of times the posts of a batch name a coin
Mentions(batch, coin) ==
    Cardinality({ i \in DOMAIN EncounterOrder(batch) : EncounterOrder(batch)[i] = coin })

\* the number of posts of a batch with a value in a field
PostsWith(batch, field, value) ==
    Cardinality({ k \in DOMAIN batch : batch[k][field] = value })

\* a dict that holds, for each value of a field in a batch and for nothing
\* else, the number of posts with that value
IsCountOf(dict, batch, field) ==
    /\ \A i, j \in DOMAIN dict : dict[i].key = dict[j].key => i = j
    /\ { dict[i].key : i \in DOMAIN dict } = { batch[k][field] : k \in DOMAIN batch }
    /\ \A i \in DOMAIN dict : dict[i].count = PostsWith(batch, field, dict[i].key)

\* a ranking of the coins of a batch: at most n entries, each a coin of the
\* batch with its count, larger counts first, equal counts in encounter
\* order, and no coin left out that would rank before an entry
IsTopCoins(top, batch, n) ==
    LET order == EncounterOrder(batch)
        Before(c, d) == \/ Mentions(batch, c) > Mentions(batch, d)
                        \/ /\ Mentions(batch, c) = Mentions(batch, d)
                           /\ FirstSeen(order, c) < FirstSeen(order, d)
    IN  /\ Len(top) = Min(n, Cardinality(Range(order)))
        /\ \A i \in DOMAIN top :
               /\ top[i].key \in Range(order)
               /\ top[i].count = Mentions(batch, top[i].key)
        /\ \A i, j \in DOMAIN top : i < j => Before(top[i].key, top[j].key)
        /\ \A c \in Range(order) :
               c \notin { top[i].key : i \in DOMAIN top }
                   => \A i \in DOMAIN top : Before(top[i].key, c)

\* C13: the snapshot a cycle writes has total_tweets equal to the batch
\* size, sentiment_distribution and tweets_by_celebrity equal to the post
\* counts per category and per username, and top_coins the at most 10 most
\* mentioned coins of the batch, equal counts in encounter order.
C13_SnapshotOfBatch ==
    (CycleRan /\ cycle.batch # << >>) =>
        /\ Len(statistics) = 1
        /\ LET snap == statistics[1]
               batch == cycle.batch
           IN  /\ snap.total_tweets = Len(batch)
               /\ IsCountOf(snap.sentiment_distribution, batch, "sentiment")
               /\ IsCountOf(snap.tweets_by_celebrity, batch, "username")
               /\ IsTopCoins(snap.top_coins, batch, 10)

\* C19: a cycle never leaves partial state.  When an update_coin_trend call
\* or update_statistics raises, none of the cycle's trend rows and no
\* snapshot of it remain written; when no store call raises, all its rows
\* and its snapshot are written.
C19_CycleIsAllOrNothing ==
    (cycle.n = 1 /\ cycle.batch # << >>) =>
        /\ output.fault.op \in { "update_coin_trend", "update_statistics" }
               => (coin_trends = << >> /\ statistics = << >>)
        /\ output.fault = NoFault
               => /\ coin_trends = TrendRows(cycle.batch, now)
                  /\ statistics = << StatisticsOf(cycle.batch, now) >>

(***************************************************************************)
(* Specification of the two queries: the store holds sample trend rows and *)
(* sample snapshots of several days, the request names any timeframe, and  *)
(* the fetch may raise.                                                    *)
(***************************************************************************)
\* the time of the request
QueryTime == Days(40)

\* a trend row as _update_trends writes it
Row(coin, mention_count, day) ==
    [ coin |-> coin, mention_count |-> mention_count, timestamp |-> Days(day) ]

\* a trend row that also carries the two other fields get_trends reads
FullRow(coin, mention_count, sentiment_score, celebrity_mentions, day) ==
    [ coin |-> coin, mention_count |-> mention_count,
      sentiment_score |-> sentiment_score,
      celebrity_mentions |-> celebrity_mentions, timestamp |-> Days(day) ]

\* twenty-two coins, enough to overflow result[:20]
TrendCoins == [ i \in 1 .. 22 |-> << "t", LowerCase[i] >> ]

\* a row per coin of TrendCoins, with many equal counts
ManyRows == [ i \in 1 .. 22 |-> Row(TrendCoins[i], i % 4, 40) ]

Reverse(l) == [ i \in DOMAIN l |-> l[Len(l) + 1 - i] ]

\* what the store may hold as trend rows
RowSamples ==
    { << >> }
    \cup ListsOf({ Row(DOGE, 5, 40), Row(DOGE, 3, 40), Row(shib, 2, 40) })
    \cup { << FullRow(doge, 1, 5000, 1, 40), Row(shib, 1, 40),
              FullRow(doge, 2, -2500, 0, 40), FullRow(shib, 3, 10000, 2, 39) >>,
           ManyRows,
           Reverse(ManyRows),
           ManyRows \o SubSeq(ManyRows, 20, 22),
           << Row(doge, 1, 40), Row(doge, 2, 38), Row(shib, 4, 20),
              Row(doge, 8, 5), Row(shib, 16, 39) >>,
           << [ coin |-> doge, timestamp |-> Days(40) ], Row(doge, 1, 40) >>,
           << Row(doge, 1, 40), Malformed(Days(40)) >>,
           << Malformed(Days(20)), Row(doge, 1, 40) >> }

Item(key, count) == [ key |-> key, count |-> count ]

\* twelve authors, enough to overflow the [:10] of the merge
ManyAuthors == << "u01", "u02", "u03", "u04", "u05", "u06",
                  "u07", "u08", "u09", "u10", "u11", "u12" >>

\* a snapshot as _update_statistics writes it
Snapshot(day, total_tweets, sentiment_distribution, tweets_by_celebrity, top_coins) ==
    [ timestamp |-> Days(day), total_tweets |-> total_tweets,
      sentiment_distribution |-> sentiment_distribution,
      tweets_by_celebrity |-> tweets_by_celebrity, top_coins |-> top_coins ]

SnapshotToday ==
    Snapshot(40, 3, << Item("positive", 2), Item("negative", 1) >>,
             << Item("elonmusk", 2), Item("snoopdogg", 1) >>,
             << Item(doge, 2), Item(shib, 1) >>)

SnapshotLastWeek ==
    Snapshot(35, 2, << Item("neutral", 2) >>,
             << Item("snoopdogg", 2) >>, << Item(shib, 2) >>)

\* seven authors and ten coins
SnapshotLastMonth ==
    Snapshot(20, 28, << Item("negative", 20), Item("positive", 8) >>,
             [ i \in 1 .. 7 |-> Item(ManyAuthors[8 - i], 8 - i) ],
             [ i \in 1 .. 10 |-> Item(ManyCoins[i], 3) ])

\* eight authors and seven coins, some of them those of SnapshotLastMonth
SnapshotYesterday ==
    Snapshot(39, 16, << Item("positive", 16) >>,
             [ i \in 1 .. 8 |-> Item(ManyAuthors[i + 4], 2) ],
             [ i \in 1 .. 7 |-> Item(ManyCoins[13 - i], 8 - i) ])

\* a snapshot without total_tweets and sentiment_distribution
SnapshotPartial ==
    [ timestamp |-> Days(40),
      tweets_by_celebrity |-> << Item("elonmusk", 1) >>,
      top_coins |-> << Item(doge, 1) >> ]

\* two snapshots as _update_statistics computes them from a batch
WrittenYesterday ==
    StatisticsOf(<< [ coins_mentioned |-> PyList(<< doge >>), sentiment |-> "positive",
                      username |-> "elonmusk", created_at |-> Days(39) ],
                    [ coins_mentioned |-> PyList(<< shib, doge >>), sentiment |-> "negative",
                      username |-> "snoopdogg", created_at |-> Days(39) ] >>,
                 Days(39))

WrittenToday ==
    StatisticsOf(<< [ coins_mentioned |-> PyStr(Join(<< doge, shib >>, <<",", " ">>)),
                      sentiment |-> "positive", username |-> "elonmusk",
                      created_at |-> Days(40) ] >>,
                 Days(40))

\* what the store may hold as snapshots
SnapshotSamples ==
    { << >>,
      << WrittenYesterday, WrittenToday >>,
      << WrittenToday, SnapshotLastMonth, WrittenYesterday >>,
      << SnapshotToday >>,
      << SnapshotLastWeek, SnapshotToday >>,
      << SnapshotToday, SnapshotLastWeek >>,
      << SnapshotLastMonth, SnapshotYesterday >>,
      << SnapshotYesterday, SnapshotLastMonth >>,
      << SnapshotLastMonth, SnapshotLastWeek, SnapshotYesterday, SnapshotToday >>,
      << SnapshotPartial, SnapshotToday >>,
      << SnapshotLastMonth, SnapshotPartial, SnapshotYesterday >>,
      << SnapshotToday, Malformed(Days(40)) >>,
      << Malformed(Days(20)), SnapshotToday >> }

\* the dates a request may carry
RequestDates == { NoDate, Date(20), Date(39) }

InitQuery ==
    /\ sentiment_analyzer = "ok"
    /\ crypto_lexicon = _load_crypto_lexicon
    /\ input = [ none |-> TRUE ]
    /\ output = NoCall
    /\ tweets_db = << >>
    /\ coin_trends \in RowSamples
    /\ statistics \in SnapshotSamples
    /\ now = QueryTime
    /\ cycle = NoCycle
    /\ trends = NoTrends
    /\ ServiceInit

\* a request for the trends
CallGetTrends ==
    /\ output = NoCall
    /\ \E timeframe \in Timeframes, start_date \in RequestDates,
          end_date \in RequestDates,
          fault \in { NoFault, [ op |-> "get_coin_trends", call |-> 1 ] } :
         LET window == TrendsWindow(now, timeframe, start_date, end_date)
         IN  output' = [ op |-> "get_trends",
                         timeframe |-> timeframe,
                         start_date |-> start_date,
                         end_date |-> end_date,
                         fault |-> fault,
                         window |-> window,
                         rows |-> DbGetCoinTrends(Db, window[1], window[2]),
                         ret |-> get_trends(Db, now, timeframe, start_date,
                                            end_date, fault) ]
    /\ UNCHANGED << sentiment_analyzer, crypto_lexicon, input >>
    /\ UNCHANGED store_vars
    /\ UNCHANGED service_vars

\* a request for the statistics: it may carry dates, get_statistics takes
\* the timeframe only
CallGetStatistics ==
    /\ output = NoCall
    /\ \E timeframe \in Timeframes, start_date \in RequestDates,
          end_date \in RequestDates,
          fault \in { NoFault, [ op |-> "get_statistics", call |-> 1 ] } :
         output' = [ op |-> "get_statistics",
                     timeframe |-> timeframe,
                     start_date |-> start_date,
                     end_date |-> end_date,
                     fault |-> fault,
                     start |-> StatisticsStart(now, timeframe),
                     all_stats |-> DbGetStatistics(Db, StatisticsStart(now, timeframe)),
                     ret |-> get_statistics(Db, now, timeframe, fault) ]
    /\ UNCHANGED << sentiment_analyzer, crypto_lexicon, input >>
    /\ UNCHANGED store_vars
    /\ UNCHANGED service_vars

NextQuery == CallGetTrends \/ CallGetStatistics

SpecQuery == InitQuery /\ [][NextQuery]_vars

(***************************************************************************)
(* Claims about get_trends and get_statistics, checked under SpecQuery.    *)
(***************************************************************************)
\* get_trends was called, the fetch returned and every fetched row is a dict
TrendsMerged ==
    /\ output.op = "get_trends"
    /\ output.fault = NoFault
    /\ \A i \in DOMAIN output.rows : IsDict(output.rows[i])

\* the sum of a field over a set of positions of a sequence of dicts, a
\* missing field counting as 0
RECURSIVE SumAt(_, _, _)
SumAt(dicts, positions, field) ==
    IF positions = { } THEN 0
    ELSE LET i == CHOOSE x \in positions : TRUE
         IN  Get(dicts[i], field, 0) + SumAt(dicts, positions \ { i }, field)

\* the sum of a field over the rows of a coin
CoinSum(rows, coin, field) ==
    SumAt(rows, { i \in DOMAIN rows : rows[i].coin = coin }, field)

\* the position of the first row of a coin
FirstRow(rows, coin) ==
    CHOOSE i \in DOMAIN rows :
        rows[i].coin = coin /\ \A j \in 1 .. (i - 1) : rows[j].coin # coin

ExampleRows == { Row(DOGE, 5, 40), Row(DOGE, 3, 40), Row(shib, 2, 40) }

\* C14: get_trends returns one summary per distinct coin of the fetched
\* rows (all of them when there are at most 20), whose mention_count,
\* sentiment_score and celebrity_mentions are the sums of the fields over
\* the rows of the coin, whatever the order of the rows; the rows
\* (DOGE,5),(DOGE,3),(SHIB,2) in any order give (DOGE,8),(SHIB,2).
C14_OneSummedEntryPerCoin ==
    TrendsMerged =>
        LET rows == output.rows
            ret == output.ret
            coins == { rows[i].coin : i \in DOMAIN rows }
        IN  /\ \A i, j \in DOMAIN ret : ret[i].coin = ret[j].coin => i = j
            /\ { ret[i].coin : i \in DOMAIN ret } \subseteq coins
            /\ Len(ret) = Min(20, Cardinality(coins))
            /\ \A i \in DOMAIN ret :
                   /\ ret[i].mention_count = CoinSum(rows, ret[i].coin, "mention_count")
                   /\ ret[i].sentiment_score = CoinSum(rows, ret[i].coin, "sentiment_score")
                   /\ ret[i].celebrity_mentions
                          = CoinSum(rows, ret[i].coin, "celebrity_mentions")
            /\ rows \in ListsOf(ExampleRows)
                   => ret = << [ coin |-> DOGE, mention_count |-> 8,
                                 sentiment_score |-> 0, celebrity_mentions |-> 0 ],
                               [ coin |-> shib, mention_count |-> 2,
                                 sentiment_score |-> 0, celebrity_mentions |-> 0 ] >>

C14_Witness ==
    /\ TrendsMerged
    /\ output.rows = << Row(DOGE, 3, 40), Row(shib, 2, 40), Row(DOGE, 5, 40) >>
    /\ Len(output.ret) = 2
    /\ output.ret[1].mention_count = 8

\* C15: the list get_trends returns has at most 20 entries, in
\* non-increasing order of summed mention_count, coins of equal count in
\* the order they are first seen in the rows, and no coin left out has a
\* larger summed mention_count than a returned one.
C15_TopTwentySortedStable ==
    TrendsMerged =>
        LET rows == output.rows
            ret == output.ret
            coins == { rows[i].coin : i \in DOMAIN rows }
        IN  /\ Len(ret) <= 20
            /\ \A i, j \in DOMAIN ret :
                   i < j =>
                       /\ ret[i].mention_count >= ret[j].mention_count
                       /\ ret[i].mention_count = ret[j].mention_count
                              => FirstRow(rows, ret[i].coin) < FirstRow(rows, ret[j].coin)
            /\ \A c \in coins \ { ret[i].coin : i \in DOMAIN ret } :
                   \A i \in DOMAIN ret :
                       CoinSum(rows, c, "mention_count") <= ret[i].mention_count

\* 22 coins fetched, 20 returned, equal counts on both sides of the cut
C15_Witness ==
    /\ TrendsMerged
    /\ Cardinality({ output.rows[i].coin : i \in DOMAIN output.rows }) = 22
    /\ Len(output.ret) = 20
    /\ output.ret[19].mention_count = output.ret[20].mention_count
    /\ \E i \in DOMAIN output.rows :
           /\ output.rows[i].coin \notin { output.ret[k].coin : k \in DOMAIN output.ret }
           /\ CoinSum(output.rows, output.rows[i].coin, "mention_count")
                  = output.ret[20].mention_count

\* get_statistics was called, the fetch returned snapshots and every one of
\* them is a dict
StatisticsMerged ==
    /\ output.op = "get_statistics"
    /\ output.fault = NoFault
    /\ output.all_stats # << >>
    /\ \A i \in DOMAIN output.all_stats : IsDict(output.all_stats[i])

\* the count a dict holds for a key, 0 when the key is missing
CountOf(dict, key) ==
    SumAt(dict, { i \in DOMAIN dict : dict[i].key = key }, "count")

\* the keys of a field over all snapshots
KeysOf(all_stats, field) ==
    UNION { { Get(all_stats[k], field, << >>)[i].key :
                i \in DOMAIN Get(all_stats[k], field, << >>) } :
            k \in DOMAIN all_stats }

\* the sum over the snapshots of the count of a key in a field
RECURSIVE KeySumAt(_, _, _, _)
KeySumAt(all_stats, positions, field, key) ==
    IF positions = { } THEN 0
    ELSE LET k == CHOOSE x \in positions : TRUE
         IN  CountOf(Get(all_stats[k], field, << >>), key)
             + KeySumAt(all_stats, positions \ { k }, field, key)

KeySum(all_stats, field, key) == KeySumAt(all_stats, DOMAIN all_stats, field, key)

\* C16: for a non-empty list of snapshots, get_statistics returns
\* total_tweets equal to the sum of the snapshots' total_tweets and a
\* sentiment_distribution that holds every key of every snapshot, each with
\* the sum of its counts over the snapshots, a missing key counting as 0.
C16_TotalsAndSentimentAreSums ==
    StatisticsMerged =>
        LET all_stats == output.all_stats
            merged == output.ret.sentiment_distribution
        IN  /\ output.ret.total_tweets = SumAt(all_stats, DOMAIN all_stats, "total_tweets")
            /\ \A i, j \in DOMAIN merged : merged[i].key = merged[j].key => i = j
            /\ { merged[i].key : i \in DOMAIN merged }
                   = KeysOf(all_stats, "sentiment_distribution")
            /\ \A i \in DOMAIN merged :
                   merged[i].count
                       = KeySum(all_stats, "sentiment_distribution", merged[i].key)

\* four snapshots, one key in two of them, two keys in one only
C16_Witness ==
    /\ StatisticsMerged
    /\ Len(output.all_stats) = 4
    /\ output.ret.total_tweets = 49
    /\ CountOf(output.ret.sentiment_distribution, "positive") = 26
    /\ CountOf(output.ret.sentiment_distribution, "neutral") = 2

\* a ranking of the merged keys of a field: at most 10 entries, each a key
\* with its summed count, in non-increasing order, and no key left out has a
\* larger summed count than an entry
IsTopTen(top, all_stats, field) ==
    /\ Len(top) <= 10
    /\ Len(top) = Min(10, Cardinality(KeysOf(all_stats, field)))
    /\ \A i, j \in DOMAIN top : top[i].key = top[j].key => i = j
    /\ \A i \in DOMAIN top :
           /\ top[i].key \in KeysOf(all_stats, field)
           /\ top[i].count = KeySum(all_stats, field, top[i].key)
    /\ \A i, j \in DOMAIN top : i < j => top[i].count >= top[j].count
    /\ \A key \in KeysOf(all_stats, field) \ { top[i].key : i \in DOMAIN top } :
           \A i \in DOMAIN top : KeySum(all_stats, field, key) <= top[i].count

\* C17: after any statistics merge the returned top_coins and
\* tweets_by_celebrity each hold at most 10 entries, the keys with the
\* largest summed counts, in descending order.
C17_TopTenAfterMerge ==
    StatisticsMerged =>
        /\ IsTopTen(output.ret.top_coins, output.all_stats, "top_coins")
        /\ IsTopTen(output.ret.tweets_by_celebrity, output.all_stats, "tweets_by_celebrity")

\* twelve coins and twelve authors in the snapshots, ten of each returned
C17_Witness ==
    /\ StatisticsMerged
    /\ Cardinality(KeysOf(output.all_stats, "top_coins")) = 12
    /\ Cardinality(KeysOf(output.all_stats, "tweets_by_celebrity")) = 12
    /\ Len(output.ret.top_coins) = 10
    /\ Len(output.ret.tweets_by_celebrity) = 10

\* C18: get_trends and get_statistics never raise.  With nothing persisted
\* in the window, or when the fetch or the merge fails, get_trends returns
\* the empty list and get_statistics returns total_tweets 0 with three
\* empty dicts.
C18_QueriesDegradeToEmpty ==
    /\ output.op = "get_trends" =>
           ((\/ output.fault # NoFault
             \/ output.rows = << >>
             \/ \E i \in DOMAIN output.rows : ~IsDict(output.rows[i]))
                => output.ret = << >>)
    /\ output.op = "get_statistics" =>
           ((\/ output.fault # NoFault
             \/ output.all_stats = << >>
             \/ \E i \in DOMAIN output.all_stats : ~IsDict(output.all_stats[i]))
                => output.ret = [ total_tweets |-> 0,
                                  sentiment_distribution |-> << >>,
                                  tweets_by_celebrity |-> << >>,
                                  top_coins |-> << >> ])

\* the merge fails on one snapshot among good ones
C18_Witness ==
    /\ output.op = "get_statistics"
    /\ output.fault = NoFault
    /\ \E i, j \in DOMAIN output.all_stats :
           ~IsDict(output.all_stats[i]) /\ IsDict(output.all_stats[j])
    /\ output.ret.total_tweets = 0

\* the day of the request
Today == DateOf(now)

\* the window of get_trends for a request
TrendsWindowAsClaimed ==
    /\ output.timeframe = "day" => output.window = << Today - 1, Today >>
    /\ output.timeframe = "week" => output.window = << Today - 7, Today >>
    /\ output.timeframe = "month" => output.window = << Today - 30, Today >>
    /\ (output.timeframe = "custom" /\ output.start_date.given /\ output.end_date.given)
           => output.window = << output.start_date.date, output.end_date.date >>

\* C20 as stated: get_trends takes its window from the timeframe, 1, 7 or
\* 30 days back to today, or the explicit dates of 'custom'; get_statistics
\* accepts the same vocabulary, 'custom' with its explicit start included.
C20_SameTimeframeVocabulary ==
    /\ output.op = "get_trends" => TrendsWindowAsClaimed
    /\ output.op = "get_statistics" =>
           /\ output.timeframe = "day" => output.start = Today - 1
           /\ output.timeframe = "week" => output.start = Today - 7
           /\ output.timeframe = "month" => output.start = Today - 30
           /\ (output.timeframe = "custom" /\ output.start_date.given
                  /\ output.end_date.given)
                  => output.start = output.start_date.date

\* C20, amended: get_trends as stated, 'custom' without both dates being
\* the 'day' window; get_statistics knows 'day', 'week' and 'month', its
\* window has a start and no end, and any other timeframe, 'custom'
\* included, is the 'day' window whatever dates the request carries.
C20_TimeframeWindows ==
    /\ output.op = "get_trends" =>
           /\ TrendsWindowAsClaimed
           /\ (output.timeframe = "custom"
                  /\ ~(output.start_date.given /\ output.end_date.given))
                  => output.window = << Today - 1, Today >>
    /\ output.op = "get_statistics" =>
           /\ output.timeframe = "day" => output.start = Today - 1
           /\ output.timeframe = "week" => output.start = Today - 7
           /\ output.timeframe = "month" => output.start = Today - 30
           /\ output.timeframe \notin { "day", "week", "month" }
                  => output.start = Today - 1
           /\ output.all_stats
                  = SelectSeq(statistics,
                              LAMBDA stat : output.start <= DateOf(stat.timestamp))

\* a 'custom' request for the statistics with both dates
C20_Witness ==
    /\ output.op = "get_statistics"
    /\ output.timeframe = "custom"
    /\ output.start_date = Date(20)
    /\ output.end_date = Date(39)
    /\ output.start = Today - 1
    /\ \E i \in DOMAIN statistics : DateOf(statistics[i].timestamp) = 20

(***************************************************************************)
(* TweetProcessor._analyze_sentiment (twitter_listener.py 92-107): the     *)
(* simple polarity strategy.  1.0 is 10000, as for the compound score.     *)
(***************************************************************************)
\* the three mappings of lines 100, 102, 104 and 107
PolarityResult(category) ==
    [ positive |-> IF category = "positive" THEN 10000 ELSE 0,
      negative |-> IF category = "negative" THEN 10000 ELSE 0,
      neutral |-> IF category = "neutral" THEN 10000 ELSE 0 ]

\* the method with the band of the lexicon strategy, 0.05 on both sides
TweetProcessorSentimentNarrowBand(text_blob, polarity) ==
    IF text_blob = "raises" THEN PolarityResult("neutral")
    ELSE IF polarity > 500 THEN PolarityResult("positive")
    ELSE IF polarity < -500 THEN PolarityResult("negative")
    ELSE PolarityResult("neutral")

\* the whole method; text_blob is "ok", or "raises" when TextBlob(text) or
\* its sentiment raises
TweetProcessor_analyze_sentiment(text_blob, polarity) ==
    IF text_blob = "raises" THEN PolarityResult("neutral")
    ELSE IF polarity > 1000 THEN PolarityResult("positive")
    ELSE IF polarity < -1000 THEN PolarityResult("negative")
    ELSE PolarityResult("neutral")

MaxOffset == 5      \* polarities are sampled this far around each threshold

\* raw polarities: the ends of the range, around 0, and around the
\* thresholds of both strategies
RawPolarities ==
    { -10000, 10000 }
    \cup { c + d : c \in { -1000, -500, 0, 500, 1000 }, d \in -MaxOffset .. MaxOffset }

InitPolarity ==
    /\ sentiment_analyzer = "ok"
    /\ crypto_lexicon = _load_crypto_lexicon
    /\ input \in [ text_blob : { "ok", "raises" }, polarity : RawPolarities ]
    /\ output = NoCall
    /\ StoreInit
    /\ ServiceInit

CallTweetProcessorAnalyzeSentiment ==
    /\ output = NoCall
    /\ output' = [ op |-> "TweetProcessor._analyze_sentiment",
                   ret |-> TweetProcessor_analyze_sentiment(input.text_blob,
                                                            input.polarity) ]
    /\ UNCHANGED << sentiment_analyzer, crypto_lexicon, input >>
    /\ UNCHANGED store_vars
    /\ UNCHANGED service_vars

NextPolarity == CallTweetProcessorAnalyzeSentiment

SpecPolarity == InitPolarity /\ [][NextPolarity]_vars

\* C23: the simple polarity strategy returns a mapping in which exactly one
\* of positive, negative, neutral is 1.0 and the others are 0.0: positive
\* for a polarity above 0.1, negative below -0.1, neutral otherwise, and
\* neutral when scoring fails.
C23_SimplePolarityThresholds ==
    output.op = "TweetProcessor._analyze_sentiment" =>
        LET ret == output.ret
            polarity == input.polarity
            scored == input.text_blob = "ok"
        IN  /\ DOMAIN ret = { "positive", "negative", "neutral" }
            /\ \E one \in DOMAIN ret :
                   /\ ret[one] = 10000
                   /\ \A other \in DOMAIN ret \ { one } : ret[other] = 0
            /\ ret.positive = 10000 <=> (scored /\ polarity > 1000)
            /\ ret.negative = 10000 <=> (scored /\ polarity < -1000)
            /\ ret.neutral = 10000
                   <=> (~scored \/ (-1000 <= polarity /\ polarity <= 1000))

\* a polarity of exactly 0.1, the upper threshold, is neutral
C23_Witness ==
    /\ output.op = "TweetProcessor._analyze_sentiment"
    /\ input.text_blob = "ok"
    /\ input.polarity = 1000
    /\ output.ret = [ positive |-> 0, negative |-> 0, neutral |-> 10000 ]

\* C25: in a cycle whose trend update and statistics update both succeed,
\* every coin of the snapshot's top_coins has a trend row written in the
\* same cycle with the same count (coins_mentioned being lists or
\* comma-separated strings).
C25_TopCoinsHaveTrendRows ==
    (CycleRan /\ cycle.batch # << >>) =>
        /\ Len(statistics) = 1
        /\ \A i \in DOMAIN statistics[1].top_coins :
               \E j \in DOMAIN cycle.rows :
                   /\ cycle.rows[j].coin = statistics[1].top_coins[i].key
                   /\ cycle.rows[j].mention_count = statistics[1].top_coins[i].count

\* a batch of a list and a comma-separated string that share a coin
C25_Witness ==
    /\ CycleRan
    /\ \E k, l \in DOMAIN cycle.batch :
           /\ cycle.batch[k].coins_mentioned.type = "list"
           /\ cycle.batch[l].coins_mentioned.type = "str"
    /\ \E i \in DOMAIN statistics[1].top_coins :
           /\ statistics[1].top_coins[i].key = doge
           /\ statistics[1].top_coins[i].count = 2

\* the sum of the counts of a dict
SumCounts(dict) == SumAt(dict, DOMAIN dict, "count")

\* what _update_statistics makes true of a snapshot: the counts per category
\* add up to total_tweets, the counts per author to at most total_tweets
IsCycleSnapshot(stat) ==
    /\ SumCounts(Get(stat, "sentiment_distribution", << >>)) = Get(stat, "total_tweets", 0)
    /\ SumCounts(Get(stat, "tweets_by_celebrity", << >>)) <= Get(stat, "total_tweets", 0)

\* C26: when the sentiment_distribution counts of every snapshot written by
\* a cycle add up to its total_tweets, the sentiment_distribution counts of
\* the result of get_statistics add up to its total_tweets, and the counts
\* of the truncated tweets_by_celebrity to at most total_tweets.
C26_MergedCountsAddUp ==
    (StatisticsMerged
        /\ \A i \in DOMAIN output.all_stats : IsCycleSnapshot(output.all_stats[i])) =>
        /\ SumCounts(output.ret.sentiment_distribution) = output.ret.total_tweets
        /\ SumCounts(output.ret.tweets_by_celebrity) <= output.ret.total_tweets

\* a merge that drops authors: the counts per author add up to less
C26_Witness ==
    /\ StatisticsMerged
    /\ \A i \in DOMAIN output.all_stats : IsCycleSnapshot(output.all_stats[i])
    /\ Len(output.all_stats) > 1
    /\ Cardinality(KeysOf(output.all_stats, "tweets_by_celebrity")) > 10
    /\ SumCounts(output.ret.sentiment_distribution) = output.ret.total_tweets
    /\ SumCounts(output.ret.tweets_by_celebrity) < output.ret.total_tweets

(***************************************************************************)
(* NotificationService (notification_service.py).  A sentiment score of    *)
(* 1.0 is 10000.  A dict is a function from its keys; a call returns the   *)
(* value it returns together with the service as it leaves it.             *)
(***************************************************************************)
\* send_email_alert, lines 25-51: whether the mail went out.  smtp is "ok",
\* or "fails" when the server cannot be reached or refuses the login
send_email_alert(service, smtp) ==
    IF ~Get(service.email_config, "enabled", FALSE) THEN FALSE
    ELSE IF "sender_email" \notin DOMAIN service.email_config THEN FALSE
    ELSE smtp = "ok"

\* lines 74-88: building subject and body raises KeyError when the trend
\* has no coin_name, volume or sentiment_score, or when one of its first
\* five top_mentions has no username or text
AlertBodyRaises(trend_data) ==
    \/ { "coin_name", "volume", "sentiment_score" } \ DOMAIN trend_data # { }
    \/ LET mentions == Take(Get(trend_data, "top_mentions", << >>), 5)
       IN  \E i \in DOMAIN mentions :
               { "username", "text" } \ DOMAIN mentions[i] # { }

\* send_trend_alert, lines 71-100: the service as the call leaves it
send_trend_alert(service, trend_data, smtp, t) ==
    IF AlertBodyRaises(trend_data) THEN service
    ELSE [ service EXCEPT !.notification_history =
             Append(@, [ timestamp |-> t, type |-> "trend_alert", data |-> trend_data ]) ]

\* check_trend_alert, lines 53-69
check_trend_alert(service, trend_data, smtp, t) ==
    IF "volume" \notin DOMAIN trend_data
    THEN [ ret |-> FALSE, service |-> service ]
    ELSE IF trend_data.volume > Get(service.alert_thresholds, "volume_threshold", 1000)
    THEN [ ret |-> TRUE, service |-> send_trend_alert(service, trend_data, smtp, t) ]
    ELSE IF "sentiment_score" \notin DOMAIN trend_data
    THEN [ ret |-> FALSE, service |-> service ]
    ELSE IF trend_data.sentiment_score
                > Get(service.alert_thresholds, "sentiment_threshold", 8000)
    THEN [ ret |-> TRUE, service |-> send_trend_alert(service, trend_data, smtp, t) ]
    ELSE [ ret |-> FALSE, service |-> service ]

(***************************************************************************)
(* Specification of the notification service: any configuration of the     *)
(* sample, then check_trend_alert called on sample trends.                 *)
(***************************************************************************)
MaxAlertCalls == 2  \* check_trend_alert is called at most this many times

\* the trends handed to check_trend_alert: each key present or missing, the
\* values on both sides of the default and of the configured thresholds
TrendData ==
    DictsOver([ coin_name |-> { doge },
                volume |-> { 1000, 1001, 5001 },
                sentiment_score |-> { 8000, 8001 },
                top_mentions |-> { << [ username |-> "elonmusk", text |-> doge ] >>,
                                   << [ username |-> "elonmusk" ] >> } ])

InitNotify ==
    /\ sentiment_analyzer = "ok"
    /\ crypto_lexicon = _load_crypto_lexicon
    /\ input = [ calls |-> 0 ]
    /\ output = NoCall
    /\ StoreInit
    /\ driver = NoDriver
    /\ \E email_config \in { << >>, [ enabled |-> FALSE ], [ enabled |-> TRUE ],
                               [ enabled |-> TRUE, sender_email |-> "alerts" ] },
          alert_thresholds \in DictsOver([ volume_threshold |-> { 5000 },
                                           sentiment_threshold |-> { 5000 } ]) :
         notification_service = [ constructed |-> TRUE,
                                  email_config |-> email_config,
                                  alert_thresholds |-> alert_thresholds,
                                  notification_history |-> << >> ]

CallCheckTrendAlert ==
    /\ input.calls < MaxAlertCalls
    /\ \E trend_data \in TrendData, smtp \in { "ok", "fails" } :
         LET call == check_trend_alert(notification_service, trend_data, smtp, now)
         IN  /\ notification_service' = call.service
             /\ output' = [ op |-> "check_trend_alert",
                            trend_data |-> trend_data,
                            before |-> notification_service.notification_history,
                            email_sent |-> send_email_alert(notification_service, smtp),
                            ret |-> call.ret ]
    /\ input' = [ calls |-> input.calls + 1 ]
    /\ UNCHANGED << sentiment_analyzer, crypto_lexicon, driver >>
    /\ UNCHANGED store_vars

NextNotify == CallCheckTrendAlert

SpecNotify == InitNotify /\ [][NextNotify]_vars

(***************************************************************************)
(* Claims about the notification service, checked under SpecNotify.        *)
(***************************************************************************)
\* the threshold a trend is compared with
ThresholdOf(name, default) == Get(notification_service.alert_thresholds, name, default)

\* the volume or the sentiment score of the trend exceeds its threshold
ExceedsThreshold(trend_data) ==
    \/ /\ "volume" \in DOMAIN trend_data
       /\ trend_data.volume > ThresholdOf("volume_threshold", 1000)
    \/ /\ "sentiment_score" \in DOMAIN trend_data
       /\ trend_data.sentiment_score > ThresholdOf("sentiment_threshold", 8000)

\* C27: notification_history only grows by appending.  A call of
\* check_trend_alert that returns True has appended exactly one trend_alert
\* entry for its trend, whether or not the mail went out; a call that
\* returns False leaves the history as it was; True is returned exactly
\* when the volume or the sentiment score exceeds its threshold.
C27_AlertHistoryFollowsResult ==
    output.op = "check_trend_alert" =>
        LET history == notification_service.notification_history
        IN  /\ output.ret =>
                   /\ Len(history) = Len(output.before) + 1
                   /\ SubSeq(history, 1, Len(output.before)) = output.before
                   /\ history[Len(history)].type = "trend_alert"
                   /\ history[Len(history)].data = output.trend_data
            /\ ~output.ret => history = output.before
            /\ output.ret <=> ExceedsThreshold(output.trend_data)

(***************************************************************************)
(* Concurrent analyses.  The stream callback and the API handlers share    *)
(* one TweetAnalyzer; each call of analyze_tweet (tweet_analyzer.py        *)
(* 75-109) runs on its own frame: text, coins_mentioned, the dict that     *)
(* polarity_scores returned, its position in the lexicon.  The calls are   *)
(* interleaved between any two steps, one iteration of the loop of lines   *)
(* 155-159 being a step.                                                   *)
(***************************************************************************)
MaxWorkers == 2  \* this many calls of analyze_tweet run at once

\* one iteration of lines 155-159 that writes the clamped sum back into the
\* lexicon entry it has just read
LexiconStepWritingBack(lexicon, text_lower, i, compound) ==
    LET next == IF Contains(text_lower, lexicon[i].term)
                THEN Clamp(compound + lexicon[i].score)
                ELSE compound
    IN  [ compound |-> next,
          lexicon |-> [ lexicon EXCEPT ![i].score = next ] ]

\* lines 155-159, one iteration: the compound score of the call and the
\* lexicon as the iteration leaves them
LexiconStep(lexicon, text_lower, i, compound) ==
    [ compound |-> IF Contains(text_lower, lexicon[i].term)
                   THEN Clamp(compound + lexicon[i].score)
                   ELSE compound,
      lexicon |-> lexicon ]

\* the frame of a call that has not run yet, and of a call that has returned
Frame(pc, ret) ==
    [ pc |-> pc, text |-> << >>, coins_mentioned |-> << >>, compound |-> 0,
      i |-> 0, sentiment |-> "neutral", ret |-> ret ]

InitInterleave ==
    /\ sentiment_analyzer \in AnalyzerStates
    /\ crypto_lexicon = _load_crypto_lexicon
    /\ input \in [ 1 .. MaxWorkers ->
                    [ tweet : { [ text |-> PyStr(<<"$">> \o doge \o <<" ","t","o"," ","t","h","e"," ","m","o","o","n">>),
                                  retweet_count |-> PyInt(500) ],
                                [ text |-> PyStr(<<"s","c","a","m"," ">> \o shib),
                                  like_count |-> PyNone ],
                                [ retweet_count |-> PyInt(13) ] },
                      keywords : { PyList(<< doge, shib >>), PyNone },
                      polarity : { 0 } ] ]
    /\ output = [ w \in 1 .. MaxWorkers |-> Frame("call", NeutralDefault) ]
    /\ StoreInit
    /\ ServiceInit

\* lines 87-90: the text in lower case, then _extract_coins; an exception
\* goes to the handler of lines 103-109
ExtractCoins(w) ==
    /\ output[w].pc = "call"
    /\ LET raw == Get(input[w].tweet, "text", PyStr(<< >>))
       IN  IF raw.type # "str"
           THEN output' = [ output EXCEPT ![w] = Frame("done", NeutralDefault) ]
           ELSE \E coins \in _extract_coins(Lower(raw.val), input[w].keywords) :
                    output' = [ output EXCEPT ![w] =
                        IF coins.raised THEN Frame("done", NeutralDefault)
                        ELSE [ @ EXCEPT !.pc = "sentiment",
                                        !.text = Lower(raw.val),
                                        !.coins_mentioned = coins.value ] ]
    /\ UNCHANGED << sentiment_analyzer, crypto_lexicon, input >>
    /\ UNCHANGED store_vars
    /\ UNCHANGED service_vars

\* lines 148-152: without a model the category is neutral; polarity_scores
\* returns a new dict on every call, or raises
PolarityScores(w) ==
    /\ output[w].pc = "sentiment"
    /\ output' = [ output EXCEPT ![w] =
         IF sentiment_analyzer = "none"
         THEN [ @ EXCEPT !.pc = "importance", !.sentiment = "neutral" ]
         ELSE IF sentiment_analyzer = "broken"
         THEN Frame("done", NeutralDefault)
         ELSE [ @ EXCEPT !.pc = "adjust", !.compound = input[w].polarity, !.i = 1 ] ]
    /\ UNCHANGED << sentiment_analyzer, crypto_lexicon, input >>
    /\ UNCHANGED store_vars
    /\ UNCHANGED service_vars

\* lines 155-159, one lexicon entry, and lines 162-167 after the last one
AdjustCompound(w) ==
    /\ output[w].pc = "adjust"
    /\ IF output[w].i <= Len(crypto_lexicon)
       THEN LET step == LexiconStep(crypto_lexicon, output[w].text, output[w].i,
                                    output[w].compound)
            IN  /\ output' = [ output EXCEPT ![w].compound = step.compound,
                                             ![w].i = @ + 1 ]
                /\ crypto_lexicon' = step.lexicon
       ELSE /\ output' = [ output EXCEPT ![w].pc = "importance",
                                         ![w].sentiment = Classify(output[w].compound) ]
            /\ UNCHANGED crypto_lexicon
    /\ UNCHANGED << sentiment_analyzer, input >>
    /\ UNCHANGED store_vars
    /\ UNCHANGED service_vars

\* lines 96-109: _calculate_importance, then the result or the default
CalculateImportance(w) ==
    /\ output[w].pc = "importance"
    /\ \E importance \in _calculate_importance(input[w].tweet, output[w].coins_mentioned,
                                                output[w].sentiment) :
         output' = [ output EXCEPT ![w] =
             IF importance.raised THEN Frame("done", NeutralDefault)
             ELSE [ @ EXCEPT !.pc = "done",
                             !.ret = [ coins_mentioned |-> output[w].coins_mentioned,
                                       sentiment |-> output[w].sentiment,
                                       importance_score |-> importance.value ] ] ]
    /\ UNCHANGED << sentiment_analyzer, crypto_lexicon, input >>
    /\ UNCHANGED store_vars
    /\ UNCHANGED service_vars

NextInterleave ==
    \E w \in 1 .. MaxWorkers :
        ExtractCoins(w) \/ PolarityScores(w) \/ AdjustCompound(w) \/ CalculateImportance(w)

SpecInterleave == InitInterleave /\ [][NextInterleave]_vars

(***************************************************************************)
(* Claims about concurrent analyses, checked under SpecInterleave.         *)
(***************************************************************************)
\* every call that has returned has returned a result that the analysis of
\* its post alone gives
ResultsAsAlone ==
    \A w \in 1 .. MaxWorkers :
        output[w].pc = "done" =>
            Returned(output[w].ret)
                \in analyze_tweet(sentiment_analyzer, _load_crypto_lexicon,
                                  input[w].tweet, input[w].keywords, input[w].polarity)

\* C22: analyze_tweet leaves its inputs and the shared state unchanged.  No
\* step of any call, one that ends in the result or one that ends in the
\* default, changes a tweet, a keyword list or the analyzer's
\* crypto_lexicon, and a call that has returned, whatever the other calls
\* did meanwhile, has returned a result that the analysis of its post alone
\* gives.
C22_AnalysesDoNotInterfere ==
    /\ [][input' = input /\ crypto_lexicon' = crypto_lexicon]_vars
    /\ [](crypto_lexicon = _load_crypto_lexicon /\ ResultsAsAlone)

\* two calls have returned, one with the default after an exception and one
\* with a result whose sentiment the lexicon decided
C22_Witness ==
    \E v, w \in 1 .. MaxWorkers :
        /\ v # w
        /\ output[v].pc = "done" /\ output[w].pc = "done"
        /\ output[v].ret = NeutralDefault /\ "text" \in DOMAIN input[v].tweet
        /\ output[w].ret.sentiment # "neutral"

(***************************************************************************)
(* main() (main.py 58-85).  driver.pc is the line the main thread is at:   *)
(* "start" before line 59, "serving" inside start_dashboard, whose last    *)
(* statement app.run (dashboard.py 327) serves until the server is         *)
(* stopped, "loop" at line 78, "sleep" at line 79, "except" at line 85,    *)
(* "crashed" after the outer handler of lines 87-89 and "done" after the   *)
(* loop.  input is config, cycle.n counts the calls of                     *)
(* process_recent_data, and the clock is advanced by the sleep of line 79. *)
(***************************************************************************)
MaxLoops == 3  \* the loop of main() calls process_recent_data at most this many times

InitMain ==
    /\ sentiment_analyzer = "ok"
    /\ crypto_lexicon = _load_crypto_lexicon
    /\ input \in DictsOver([ processing_interval |-> { PyInt(1), PyNone } ])
    /\ output = NoCall
    /\ tweets_db \in { << >>,
                       << [ coins_mentioned |-> PyList(<< doge >>), sentiment |-> "positive",
                            username |-> "elonmusk", created_at |-> 0 ] >>,
                       << [ coins_mentioned |-> PyList(<< shib, doge >>), sentiment |-> "negative",
                            username |-> "snoopdogg", created_at |-> 0 ],
                          [ coins_mentioned |-> PyStr(doge), sentiment |-> "neutral",
                            username |-> "elonmusk", created_at |-> 0 ] >> }
    /\ coin_trends = << >>
    /\ statistics = << >>
    /\ now = 0
    /\ cycle = NoCycle
    /\ trends = NoTrends
    /\ driver = [ pc |-> "start", failed |-> FALSE, retried |-> FALSE,
                  interrupted |-> FALSE ]
    /\ notification_service = NoService

\* lines 59-72: the listener is submitted, the API thread started and
\* start_dashboard called; it serves, or raises (a port in use) into the
\* handler of lines 87-89
StartComponents ==
    /\ driver.pc = "start"
    /\ \/ driver' = [ driver EXCEPT !.pc = "serving" ]
       \/ driver' = [ driver EXCEPT !.pc = "crashed" ]
    /\ UNCHANGED << analyzer_vars, store_vars, notification_service >>

\* dashboard.py 327: app.run returns when its server has been stopped
DashboardStops ==
    /\ driver.pc = "serving"
    /\ driver' = [ driver EXCEPT !.pc = "loop" ]
    /\ UNCHANGED << analyzer_vars, store_vars, notification_service >>

\* line 78: one cycle; process_recent_data catches what its store calls
\* raise (data_processor.py 56-57) and returns
CallProcessRecentData ==
    /\ driver.pc = "loop"
    /\ cycle.n < MaxLoops
    /\ \E batch \in { RecentTweets(Db, now, DefaultHours) } :
       \E fault \in CycleFaults(batch) :
       \E after \in { process_recent_data(Db, now, DefaultHours, fault) } :
             /\ coin_trends' = after.coin_trends
             /\ statistics' = after.statistics
             /\ cycle' = [ n |-> cycle.n + 1, batch |-> batch,
                           rows |-> after.coin_trends ]
             /\ output' = [ op |-> "process_recent_data", fault |-> fault ]
             /\ driver' = [ driver EXCEPT !.pc = "sleep",
                                          !.failed = fault # NoFault,
                                          !.retried = @ \/ driver.failed ]
    /\ UNCHANGED << sentiment_analyzer, crypto_lexicon, input, tweets_db, now, trends,
                    notification_service >>

\* the wait of line 85 that gives up instead of going round the loop
WaitStoppingAfterError ==
    /\ driver.pc \in { "sleep", "except" }
    /\ IF driver.pc = "sleep"
       THEN IF Get(input, "processing_interval", PyNone).type = "int"
            THEN /\ driver' = [ driver EXCEPT !.pc = "loop" ]
                 /\ now' = now + 1
            ELSE /\ driver' = [ driver EXCEPT !.pc = "except", !.failed = TRUE ]
                 /\ UNCHANGED now
       ELSE /\ driver' = [ driver EXCEPT !.pc = "done" ]
            /\ UNCHANGED now
    /\ UNCHANGED << analyzer_vars, tweets_db, coin_trends, statistics, cycle, trends,
                    notification_service >>

\* line 79: time.sleep(config["processing_interval"]), which raises into
\* the handler of line 83 when the key is missing or no number; line 85:
\* time.sleep(10), then the loop again
Wait ==
    /\ driver.pc \in { "sleep", "except" }
    /\ IF driver.pc = "sleep"
       THEN IF Get(input, "processing_interval", PyNone).type = "int"
            THEN /\ driver' = [ driver EXCEPT !.pc = "loop" ]
                 /\ now' = now + 1
            ELSE /\ driver' = [ driver EXCEPT !.pc = "except", !.failed = TRUE ]
                 /\ UNCHANGED now
       ELSE /\ driver' = [ driver EXCEPT !.pc = "loop" ]
            /\ UNCHANGED now
    /\ UNCHANGED << analyzer_vars, tweets_db, coin_trends, statistics, cycle, trends,
                    notification_service >>

\* lines 80-82: Ctrl-C while the main thread is in the try block ends the
\* loop; during the sleep of line 85 it is raised inside the handler and
\* leaves the loop uncaught
KeyboardInterrupt ==
    /\ driver.pc \in { "loop", "sleep", "except" }
    /\ driver' = [ driver EXCEPT !.pc = "done", !.interrupted = TRUE ]
    /\ UNCHANGED << analyzer_vars, store_vars, notification_service >>

NextMain ==
    \/ StartComponents
    \/ DashboardStops
    \/ CallProcessRecentData
    \/ Wait
    \/ KeyboardInterrupt

\* the main thread runs whenever it can: start_dashboard is reached, a sleep
\* ends, and the call of line 78 returns (the step of CallProcessRecentData,
\* stated by what it does to driver).  When the dashboard server stops and
\* whether Ctrl-C is pressed is up to the environment.
SpecMain ==
    /\ InitMain
    /\ [][NextMain]_vars
    /\ WF_vars(StartComponents)
    /\ WF_vars(Wait)
    /\ WF_driver(/\ driver.pc = "loop"
                 /\ cycle.n < MaxLoops
                 /\ driver' \in [ pc : { "sleep" }, failed : BOOLEAN,
                                  retried : BOOLEAN, interrupted : { FALSE } ])

(***************************************************************************)
(* Claims about main(), checked under SpecMain.                            *)
(***************************************************************************)
\* C21: in the loop of main() a failed cycle never stops the loop.  The
\* loop ends only on a keyboard interrupt, and after a cycle that failed,
\* inside process_recent_data or at the sleep after it, the driver waits
\* and runs the cycle again unless it is interrupted.
C21_FailedCycleIsRetried ==
    /\ [](driver.pc = "done" => driver.interrupted)
    /\ \A n \in 1 .. MaxLoops - 1 :
         (cycle.n = n /\ driver.failed) ~> (cycle.n > n \/ driver.interrupted)

\* a cycle failed, the driver waited, and the last call allowed has run
C21_Witness ==
    /\ driver.retried
    /\ driver.failed
    /\ cycle.n = MaxLoops
    /\ ~driver.interrupted

\* C24: after main() has started the listener, the API thread and the
\* dashboard it reaches the loop.  From the moment the dashboard is started
\* process_recent_data is eventually called, and after every call but the
\* last one allowed it is called again, unless the process is interrupted.
C24_LoopIsReached ==
    /\ (driver.pc = "serving") ~> (cycle.n > 0 \/ driver.interrupted)
    /\ \A n \in 1 .. MaxLoops - 1 :
         (cycle.n = n) ~> (cycle.n > n \/ driver.interrupted)

====
